---- MODULE Spec2Model ----
(***************************************************************************)
(* AppDataStore, shared-memory backend.                                    *)
(*                                                                         *)
(* Two specifications over one kernel model:                               *)
(*   Spec      - DataStoreSharedMemItem: two processes, each with one      *)
(*               handle, run get/set/update step by step (the named mutex  *)
(*               built from creating the segment "<name>L").               *)
(*   SpecStore - DataStoreSharedMem: one store instance runs               *)
(*               has/get/set/delete/list, each call as one action, against *)
(*               a clock.                                                  *)
(*                                                                         *)
(* Names and payloads are sequences of bytes (character codes).  The       *)
(* kernel is a directory names: name -> segment id, and mem: id ->         *)
(* [size, buf].                                                            *)
(***************************************************************************)
EXTENDS Integers, Sequences, FiniteSets, TLC

VARIABLES
    names,      \* kernel directory of shared memory: name -> segment id
    mem,        \* segment id -> [size, buf]
    page,       \* allocation granule of the host (st_size rounds up to it)
    h,          \* item spec: process -> handle [name, shm, lock]
    pc,         \* item spec: process -> position in its current call
    loc,        \* item spec: process -> locals of the current call
    res,        \* item spec: process -> outcome of its call in this round
    ret,        \* item spec: process -> value returned by get
    base,       \* item spec (history): item name -> payload at round start
    call,       \* item spec (history): process -> the call made this round
    wrote,      \* item spec (history): process wrote to the buffer this round
    tried,      \* item spec (history): 0 no attempt on the lock this round,
                \* 1 attempted, 2 an attempt found the lock taken
    store,      \* store spec: the instance [ih, eh, dot]: its Index handle,
                \* its Expiry Table handle, its dot_names flag
    clock,      \* store spec: timestamp(), in seconds
    called,     \* store spec (history): instant of the last call, -1: none
    stored,     \* store spec (history): key -> value of the last set that
                \* succeeded, until a delete or a sweep of the key
    deleted,    \* store spec (history): key -> 1 after a delete, 2 after
                \* the set that follows it, else 0
    deadline,   \* store spec (history): key -> instant the last set
                \* recorded for it (0: none)
    forever,    \* store spec (history): key -> its last set had timeout 0
    inst,       \* shared spec: process -> its store instance [ih, eh, own
                \* (delete_on_cleanup), live, reseeded], NoInst before it
                \* has one
    faulty      \* names of the segments the kernel refuses to unlink

itemVars == <<h, pc, loc, res, ret, base, call, wrote, tried>>
storeVars == <<store, clock, called, stored, deleted, deadline, forever>>
sharedVars == <<inst, faulty>>
vars == <<names, mem, page, itemVars, storeVars, sharedVars>>

(***************************************************************************)
(* Bounds of the model                                                     *)
(***************************************************************************)
\* Size requested for the item segments of the item specification.
ItemSize == 2

\* Number of retry intervals that make up the wait budget of the lock
\* (LOCK_WAIT_TIMEOUT / LOCK_RETRY, 150 in the source).
MaxLockWait == 2

(***************************************************************************)
(* Program constants                                                       *)
(***************************************************************************)
\* One retry interval: the unit in which the wait is counted.
LOCK_RETRY == 1

LOCK_WAIT_TIMEOUT == MaxLockWait * LOCK_RETRY

\* "L"
LOCK_NAME_SUFFIX == <<76>>

Procs == {1, 2}

\* "a", "b"
ItemA == <<97>>
ItemB == <<98>>
ItemNames == {ItemA, ItemB}

\* handle._shm / handle._lock when no segment is held (None)
NoSeg == 0
NoLock == <<>>

(***************************************************************************)
(* Kernel: multiprocessing.shared_memory.SharedMemory                      *)
(***************************************************************************)
Zeros(n) == [i \in 1..n |-> 0]

\* st_size of a segment truncated to `size` on a host whose granule is g.
AllocSize(size, g) == ((size + g - 1) \div g) * g

FreshId(m) == CHOOSE i \in 1..(Cardinality(DOMAIN m) + 1) : i \notin DOMAIN m

\* shared_memory_exists(name)
shared_memory_exists(nm, name) == name \in DOMAIN nm

\* SharedMemory(name, create=True, size): the directory and the memory after
\* a creation that succeeded.
CreatedNames(nm, m, name) ==
    [n \in DOMAIN nm \cup {name} |-> IF n = name THEN FreshId(m) ELSE nm[n]]

CreatedMem(m, size, g) ==
    [i \in DOMAIN m \cup {FreshId(m)} |->
        IF i = FreshId(m)
        THEN [size |-> AllocSize(size, g), buf |-> Zeros(AllocSize(size, g))]
        ELSE m[i]]

\* Mutant of UnlinkedNames: the name stays.
UnlinkedNamesKept(nm, name) == nm

\* SharedMemory.unlink() followed by close() of the only mapping.
UnlinkedNames(nm, name) == [n \in DOMAIN nm \ {name} |-> nm[n]]

DroppedMem(m, id) == [i \in DOMAIN m \ {id} |-> m[i]]

(***************************************************************************)
(* DataStoreSharedMemItem: pure parts                                      *)
(***************************************************************************)
\* self._lock_name
LockName(name) == name \o LOCK_NAME_SUFFIX

\* Mutant of LockCreateSucceeds: the creation never reports FileExistsError.
LockCreateAlways(nm, lockname) == TRUE

\* SharedMemory(name=self._lock_name, create=True, size=1) succeeds exactly
\* when no segment of that name exists (FileExistsError otherwise).
LockCreateSucceeds(nm, lockname) == ~shared_memory_exists(nm, lockname)

\* Mutant of TimedOut: the comparison is strict.
TimedOutLate(waited) == waited > LOCK_WAIT_TIMEOUT

\* if _time_waited >= LOCK_WAIT_TIMEOUT: raise TimeoutError
TimedOut(waited) == waited >= LOCK_WAIT_TIMEOUT

\* self._shm.buf[:_val_size] = value
WriteValue(buf, value) ==
    [i \in 1..Len(buf) |-> IF i <= Len(value) THEN value[i] ELSE buf[i]]

\* Mutant of ZeroFill: the rest of the buffer is left as it was.
ZeroFillSkip(buf, valsize) == buf

\* self._shm.buf[_val_size:] = b'\x00' * (size - _val_size)
ZeroFill(buf, valsize) ==
    [i \in 1..Len(buf) |-> IF i <= valsize THEN buf[i] ELSE 0]

\* The payload a full write of value leaves in a segment of this size.
Padded(value, size) == value \o Zeros(size - Len(value))

\* Mutant of TooBig: one byte more than the capacity passes.
TooBigLax(value, size) == Len(value) > size + 1

\* value > capacity: "value is too big for shared memory segment"
TooBig(value, size) == Len(value) > size

(***************************************************************************)
(* Inputs of the item specification                                        *)
(***************************************************************************)
\* The payload without its zero padding (what from_pickle sees of it).
Strip(b) ==
    LET n == IF \E i \in 1..Len(b) : b[i] # 0
             THEN CHOOSE i \in 1..Len(b) :
                      b[i] # 0 /\ \A j \in (i + 1)..Len(b) : b[j] = 0
             ELSE 0
    IN  SubSeq(b, 1, n)

\* Transforms handed to update: append one byte to the stored value (as the
\* transform of test_update appends to the stored string), or raise.
Funcs == {"append1", "append2", "raise"}

FuncRaises(f) == f = "raise"

Apply(f, b) == IF f = "append1" THEN Append(Strip(b), 1) ELSE Append(Strip(b), 2)

\* Values handed to set: empty, short, one byte more than the capacity.
SetValues == {<<>>, <<3>>, [i \in 1..(ItemSize + 1) |-> 5]}

NoCall == [op |-> "none", arg |-> <<>>]

\* The store specification's variables while the item specification runs.
NoHandle == [name |-> <<>>, shm |-> NoSeg, lock |-> NoLock]
NoStore == [ih |-> NoHandle, eh |-> NoHandle, dot |-> FALSE]
\* freed (history): the lock this call waits for was released meanwhile.
NoLocals == [op |-> "none", arg |-> <<>>, newv |-> <<>>, waited |-> 0,
             freed |-> FALSE]

\* The segment a handle is attached to, and its payload.
SegOf(p) == mem[h[p].shm]
Payload(name) == mem[names[name]].buf

(***************************************************************************)
(* Item specification: initial state                                       *)
(*                                                                         *)
(* Process 1 holds a handle on item "a"; process 2 holds a handle on "a"   *)
(* or on "b".  Each handle was constructed with size ItemSize, so its      *)
(* segment exists and reads as zeros (__init__ calls open).                *)
(***************************************************************************)
Init ==
    /\ page = 1
    /\ \E n2 \in ItemNames :
          /\ h = [p \in Procs |->
                    [name |-> IF p = 1 THEN ItemA ELSE n2,
                     shm |-> IF p = 1 \/ n2 = ItemA THEN 1 ELSE 2,
                     lock |-> NoLock]]
          /\ names = [n \in {ItemA, n2} |-> IF n = ItemA THEN 1 ELSE 2]
          /\ mem = [i \in 1..Cardinality({ItemA, n2}) |->
                      [size |-> AllocSize(ItemSize, 1),
                       buf |-> Zeros(AllocSize(ItemSize, 1))]]
          /\ base = [n \in {ItemA, n2} |-> Zeros(AllocSize(ItemSize, 1))]
    /\ pc = [p \in Procs |-> "idle"]
    /\ loc = [p \in Procs |-> NoLocals]
    /\ res = [p \in Procs |-> "none"]
    /\ ret = [p \in Procs |-> <<>>]
    /\ call = [p \in Procs |-> NoCall]
    /\ wrote = [p \in Procs |-> FALSE]
    /\ tried = [p \in Procs |-> 0]
    /\ store = NoStore
    /\ clock = 0
    /\ called = -1
    /\ stored = <<>>
    /\ deleted = <<>>
    /\ deadline = <<>>
    /\ forever = <<>>
    /\ inst = <<>>
    /\ faulty = {}

(***************************************************************************)
(* Item specification: steps of one process                                *)
(***************************************************************************)
\* A call returns or raises: the outcome is recorded, the locals are gone.
Return(p, outcome) ==
    /\ pc' = [pc EXCEPT ![p] = "idle"]
    /\ res' = [res EXCEPT ![p] = outcome]
    /\ loc' = [loc EXCEPT ![p] = NoLocals]

\* Entry of _acquire_lock: a handle that holds its lock is refused
\* (RuntimeError), otherwise the retry loop starts with _time_waited = 0.
EnterAcquire(p, op, arg) ==
    IF h[p].lock # NoLock
    THEN Return(p, "RuntimeError")
    ELSE /\ pc' = [pc EXCEPT ![p] = "acquire"]
         /\ loc' = [loc EXCEPT ![p] = [NoLocals EXCEPT !.op = op, !.arg = arg]]
         /\ res' = res

\* get(): the whole buffer, without the lock.
Get(p) ==
    /\ pc[p] = "idle" /\ res[p] = "none"
    /\ h[p].shm # NoSeg
    /\ ret' = [ret EXCEPT ![p] = SegOf(p).buf]
    /\ res' = [res EXCEPT ![p] = "ok"]
    /\ call' = [call EXCEPT ![p] = [op |-> "get", arg |-> <<>>]]
    /\ UNCHANGED <<names, mem, page, h, pc, loc, base, wrote, tried>>
    /\ UNCHANGED <<storeVars, sharedVars>>

\* set(value) up to the lock: the size check comes before _acquire_lock.
SetCall(p, value) ==
    /\ pc[p] = "idle" /\ res[p] = "none"
    /\ h[p].shm # NoSeg
    /\ call' = [call EXCEPT ![p] = [op |-> "set", arg |-> value]]
    /\ IF TooBig(value, SegOf(p).size)
       THEN Return(p, "ValueError")
       ELSE EnterAcquire(p, "set", value)
    /\ UNCHANGED <<names, mem, page, h, ret, base, wrote, tried>>
    /\ UNCHANGED <<storeVars, sharedVars>>

\* update(func) up to the lock.
UpdateCall(p, f) ==
    /\ pc[p] = "idle" /\ res[p] = "none"
    /\ h[p].shm # NoSeg
    /\ call' = [call EXCEPT ![p] = [op |-> "update", arg |-> f]]
    /\ EnterAcquire(p, "update", f)
    /\ UNCHANGED <<names, mem, page, h, ret, base, wrote, tried>>
    /\ UNCHANGED <<storeVars, sharedVars>>

\* One turn of the loop of _acquire_lock: create the lock segment, or sleep
\* LOCK_RETRY and give up once the wait has reached LOCK_WAIT_TIMEOUT.
AcquireTry(p) ==
    /\ pc[p] = "acquire"
    /\ tried' = [tried EXCEPT ![p] =
                   IF LockCreateSucceeds(names, LockName(h[p].name))
                   THEN (IF @ = 0 THEN 1 ELSE @) ELSE 2]
    /\ IF LockCreateSucceeds(names, LockName(h[p].name))
       THEN /\ names' = CreatedNames(names, mem, LockName(h[p].name))
            /\ mem' = CreatedMem(mem, 1, page)
            /\ h' = [h EXCEPT ![p].lock = LockName(h[p].name)]
            /\ pc' = [pc EXCEPT ![p] =
                        IF loc[p].op = "set" THEN "set_write" ELSE "update_read"]
            /\ UNCHANGED <<loc, res>>
       ELSE /\ IF TimedOut(loc[p].waited + LOCK_RETRY)
               THEN Return(p, "TimeoutError")
               ELSE /\ loc' = [loc EXCEPT ![p].waited = @ + LOCK_RETRY]
                    /\ UNCHANGED <<pc, res>>
            /\ UNCHANGED <<names, mem, h>>
    /\ UNCHANGED <<page, ret, base, call, wrote>>
    /\ UNCHANGED <<storeVars, sharedVars>>

\* set: self._shm.buf[:_val_size] = value
SetWrite(p) ==
    /\ pc[p] = "set_write"
    /\ mem' = [mem EXCEPT ![h[p].shm].buf = WriteValue(@, loc[p].arg)]
    /\ wrote' = [wrote EXCEPT ![p] = TRUE]
    /\ pc' = [pc EXCEPT ![p] = "set_fill"]
    /\ UNCHANGED <<names, page, h, loc, res, ret, base, call, tried>>
    /\ UNCHANGED <<storeVars, sharedVars>>

\* set: zero the rest of the buffer
SetFill(p) ==
    /\ pc[p] = "set_fill"
    /\ mem' = [mem EXCEPT ![h[p].shm].buf =
                 IF Len(loc[p].arg) < SegOf(p).size
                 THEN ZeroFill(@, Len(loc[p].arg)) ELSE @]
    /\ pc' = [pc EXCEPT ![p] = "release"]
    /\ UNCHANGED <<names, page, h, loc, res, ret, base, call, wrote, tried>>
    /\ UNCHANGED <<storeVars, sharedVars>>

\* Mutant of UpdateRead: the value transformed is the one the segment held
\* before the lock was taken, not the one read under the lock.
UpdateReadStale(p) ==
    /\ pc[p] = "update_read"
    /\ IF FuncRaises(loc[p].arg)
       THEN Return(p, "FuncError")
       ELSE IF TooBig(Apply(loc[p].arg, base[h[p].name]), SegOf(p).size)
       THEN Return(p, "ValueError")
       ELSE /\ loc' = [loc EXCEPT ![p].newv = Apply(loc[p].arg, base[h[p].name])]
            /\ pc' = [pc EXCEPT ![p] = "update_write"]
            /\ res' = res
    /\ UNCHANGED <<names, mem, page, h, ret, base, call, wrote, tried>>
    /\ UNCHANGED <<storeVars, sharedVars>>

\* update: _stored_value = self._shm.buf.tobytes(), _new_value =
\* func(_stored_value), then the size check.  An error of func and the
\* ValueError of the size check leave update at once.
UpdateRead(p) ==
    /\ pc[p] = "update_read"
    /\ IF FuncRaises(loc[p].arg)
       THEN Return(p, "FuncError")
       ELSE IF TooBig(Apply(loc[p].arg, SegOf(p).buf), SegOf(p).size)
       THEN Return(p, "ValueError")
       ELSE /\ loc' = [loc EXCEPT ![p].newv = Apply(loc[p].arg, SegOf(p).buf)]
            /\ pc' = [pc EXCEPT ![p] = "update_write"]
            /\ res' = res
    /\ UNCHANGED <<names, mem, page, h, ret, base, call, wrote, tried>>
    /\ UNCHANGED <<storeVars, sharedVars>>

\* update: self._shm.buf[:_val_size] = _new_value
UpdateWrite(p) ==
    /\ pc[p] = "update_write"
    /\ mem' = [mem EXCEPT ![h[p].shm].buf = WriteValue(@, loc[p].newv)]
    /\ wrote' = [wrote EXCEPT ![p] = TRUE]
    /\ pc' = [pc EXCEPT ![p] = "update_fill"]
    /\ UNCHANGED <<names, page, h, loc, res, ret, base, call, tried>>
    /\ UNCHANGED <<storeVars, sharedVars>>

\* update: zero the rest of the buffer
UpdateFill(p) ==
    /\ pc[p] = "update_fill"
    /\ mem' = [mem EXCEPT ![h[p].shm].buf =
                 IF Len(loc[p].newv) < SegOf(p).size
                 THEN ZeroFill(@, Len(loc[p].newv)) ELSE @]
    /\ pc' = [pc EXCEPT ![p] = "release"]
    /\ UNCHANGED <<names, page, h, loc, res, ret, base, call, wrote, tried>>
    /\ UNCHANGED <<storeVars, sharedVars>>

\* _release_lock at the end of set and update: unlink and close the lock
\* segment, forget it; the call returns.
ReleaseLock(p) ==
    /\ pc[p] = "release"
    /\ IF h[p].lock = NoLock
       THEN /\ Return(p, "RuntimeError")
            /\ UNCHANGED <<names, mem, h>>
       ELSE /\ mem' = IF shared_memory_exists(names, h[p].lock)
                      THEN DroppedMem(mem, names[h[p].lock]) ELSE mem
            /\ names' = UnlinkedNames(names, h[p].lock)
            /\ h' = [h EXCEPT ![p].lock = NoLock]
            /\ Return(p, "ok")
    /\ UNCHANGED <<page, ret, base, call, wrote, tried>>
    /\ UNCHANGED <<storeVars, sharedVars>>

\* History only: once every call of the round has returned, the next round
\* starts from the payloads as they are now.
NextRound ==
    /\ \A p \in Procs : pc[p] = "idle"
    /\ \E p \in Procs : res[p] # "none"
    /\ base' = [n \in DOMAIN base |-> Payload(n)]
    /\ res' = [p \in Procs |-> "none"]
    /\ ret' = [p \in Procs |-> <<>>]
    /\ call' = [p \in Procs |-> NoCall]
    /\ wrote' = [p \in Procs |-> FALSE]
    /\ tried' = [p \in Procs |-> 0]
    /\ UNCHANGED <<names, mem, page, h, pc, loc>>
    /\ UNCHANGED <<storeVars, sharedVars>>

Next ==
    \/ \E p \in Procs : Get(p)
    \/ \E p \in Procs, v \in SetValues : SetCall(p, v)
    \/ \E p \in Procs, f \in Funcs : UpdateCall(p, f)
    \/ \E p \in Procs : AcquireTry(p)
    \/ \E p \in Procs : SetWrite(p)
    \/ \E p \in Procs : SetFill(p)
    \/ \E p \in Procs : UpdateRead(p)
    \/ \E p \in Procs : UpdateWrite(p)
    \/ \E p \in Procs : UpdateFill(p)
    \/ \E p \in Procs : ReleaseLock(p)
    \/ NextRound

Spec == Init /\ [][Next]_vars

(***************************************************************************)
(* Claims on the item specification                                        *)
(***************************************************************************)
AllIdle == \A p \in Procs : pc[p] = "idle"

\* The other process, when its handle is on the same item.
Peer(p) == CHOOSE q \in Procs : q # p

SameItem == h[1].name = h[2].name

HoldsLock(p) == h[p].lock # NoLock

\* The payload a call that returned normally leaves, started on payload b.
Effect(c, b) ==
    IF c.op = "set" THEN Padded(c.arg, Len(b))
    ELSE IF c.op = "update" THEN Padded(Apply(c.arg, b), Len(b))
    ELSE b

C2_UpdatesSerialise ==
    (/\ AllIdle /\ SameItem
     /\ \A p \in Procs : res[p] = "ok" /\ call[p].op = "update")
    => LET v0 == base[ItemA]
       IN  Payload(ItemA) \in
              {Effect(call[2], Effect(call[1], v0)),
               Effect(call[1], Effect(call[2], v0))}

\* C2 witness: both updates returned, one of them after finding the lock
\* taken by the other, and the payload holds both appended bytes.
C2_Witness ==
    /\ AllIdle /\ SameItem
    /\ \A p \in Procs : res[p] = "ok" /\ call[p].op = "update"
    /\ call[1].arg = "append1" /\ call[2].arg = "append2"
    /\ tried[1] = 2
    /\ base[ItemA] = Zeros(ItemSize)
    /\ Payload(ItemA) = Padded(<<2, 1>>, ItemSize)

\* C3: set(s) and update(f) on one item, both returned: the payload is s
\* (the update ran first) or f(s) (the set ran first), zero padded.
C3_SetVersusUpdate ==
    \A p \in Procs :
        (/\ AllIdle /\ SameItem
         /\ res[p] = "ok" /\ call[p].op = "set"
         /\ res[Peer(p)] = "ok" /\ call[Peer(p)].op = "update")
        => Payload(ItemA) \in
              {Padded(call[p].arg, ItemSize),
               Effect(call[Peer(p)], Padded(call[p].arg, ItemSize))}

\* C3 witness: the update waited for the set and then appended to the value
\* the set wrote.
C3_Witness ==
    /\ AllIdle /\ SameItem
    /\ res[1] = "ok" /\ call[1] = [op |-> "set", arg |-> <<3>>]
    /\ res[2] = "ok" /\ call[2] = [op |-> "update", arg |-> "append1"]
    /\ tried[2] = 2
    /\ Payload(ItemA) = Padded(<<3, 1>>, ItemSize)

\* C4: a set or update waits at most the budget; when it fails with
\* TimeoutError the caller has written nothing and holds no lock, and once
\* every call has returned the payload is what the other handle left.
C4_LockTimeout ==
    \A p \in Procs :
        /\ pc[p] = "acquire" => loc[p].waited < LOCK_WAIT_TIMEOUT
        /\ res[p] = "TimeoutError" =>
              /\ ~wrote[p] /\ ~HoldsLock(p) /\ tried[p] = 2
              /\ SameItem
              /\ AllIdle =>
                    Payload(h[p].name) =
                        IF res[Peer(p)] = "ok"
                        THEN Effect(call[Peer(p)], base[h[p].name])
                        ELSE base[h[p].name]

\* C4 witness: process 1 timed out on a set while process 2 held the lock
\* for an update that then completed and changed the payload.
C4_Witness ==
    /\ AllIdle /\ SameItem
    /\ res[1] = "TimeoutError" /\ call[1].op = "set"
    /\ res[2] = "ok" /\ call[2].op = "update"
    /\ Payload(ItemA) # base[ItemA]

\* C5: whenever a set or update has returned, normally or with an error,
\* the calling handle holds no lock.
C5_LockReleasedOnReturn ==
    \A p \in Procs : pc[p] = "idle" => ~HoldsLock(p)

\* C6: set(value) with value longer than the capacity fails with ValueError
\* before any attempt on the lock and without a write; when no other call
\* ran, the payload is the one from before the call.
C6_SetTooLarge ==
    \A p \in Procs :
        /\ (call[p].op = "set" /\ Len(call[p].arg) > SegOf(p).size)
              => res[p] = "ValueError"
        /\ (call[p].op = "set" /\ res[p] = "ValueError") =>
              /\ Len(call[p].arg) > SegOf(p).size
              /\ tried[p] = 0 /\ ~wrote[p] /\ pc[p] = "idle"
              /\ (res[Peer(p)] = "none" /\ pc[Peer(p)] = "idle")
                    => Payload(h[p].name) = base[h[p].name]

\* C6 witness: an oversized set was refused on an item that holds a value.
C6_Witness ==
    /\ call[1].op = "set" /\ res[1] = "ValueError"
    /\ res[2] = "none" /\ pc[2] = "idle"
    /\ base[ItemA] = Padded(<<3>>, ItemSize)
    /\ Payload(ItemA) = Padded(<<3>>, ItemSize)

(***************************************************************************)
(* Store specification: bounds and inputs                                  *)
(***************************************************************************)
\* Allocation granule of a host that rounds segment sizes up (the other
\* host, of granule 1, gives a segment exactly the size asked for).
PageSize == 4

\* DEFAULT_INDEX_SIZE, scaled: room for the encoded Index and Expiry Table
\* of every key of the model.
IndexBytes == 8

\* Last value of the clock.
MaxClock == 3

DEFAULT_INDEX_SIZE == IndexBytes

\* "I", "E"
INDEX_SUFFIX == <<73>>
EXPIRY_DICT_SUFFIX == <<69>>

SHARED_ITEM_NAME_MAX == 14 - Len(LOCK_NAME_SUFFIX)

\* The store is opened with name "s"; its keys are "a" and "b".
StoreName == <<115>>
Keys == {ItemA, ItemB}

\* Values: "x", "yy", and one whose encoding is a byte longer than PageSize.
BigValue == [i \in 1..(PageSize - 1) |-> 122]
Values == {<<120>>, <<121, 121>>, BigValue}

\* None, and the default handed to get ("d").
None == <<-1>>
Defaults == {None, <<100>>}

Timeouts == {0, 1}

Prefixes == {<<>>, ItemA}

\* No value recorded for a key (history).
NoValue == <<-2>>

(***************************************************************************)
(* Codec: serialisation of the Index (a list of names), of the Expiry      *)
(* Table (a dict name -> instant, in insertion order) and of item values.  *)
(* Self-delimiting: a tag, a count, the counted parts; decoding reads no   *)
(* further, so zero padding after the encoding is ignored.                 *)
(***************************************************************************)
TagList == 93
TagDict == 125
TagValue == 88

RECURSIVE Flatten(_)
Flatten(ss) == IF ss = <<>> THEN <<>> ELSE Head(ss) \o Flatten(Tail(ss))

EncodeName(n) == <<Len(n)>> \o n

EncodeList(l) ==
    <<TagList, Len(l)>> \o Flatten([i \in 1..Len(l) |-> EncodeName(l[i])])

EncodeDict(d) ==
    <<TagDict, Len(d)>>
        \o Flatten([i \in 1..Len(d) |-> EncodeName(d[i].k) \o <<d[i].t>>])

EncodeValue(v) == <<TagValue, Len(v)>> \o v

RECURSIVE DecodeNames(_, _, _)
DecodeNames(b, pos, n) ==
    IF n = 0 THEN <<>>
    ELSE <<SubSeq(b, pos + 1, pos + b[pos])>>
             \o DecodeNames(b, pos + 1 + b[pos], n - 1)

RECURSIVE DecodeEntries(_, _, _)
DecodeEntries(b, pos, n) ==
    IF n = 0 THEN <<>>
    ELSE <<[k |-> SubSeq(b, pos + 1, pos + b[pos]), t |-> b[pos + 1 + b[pos]]]>>
             \o DecodeEntries(b, pos + 2 + b[pos], n - 1)

\* [err, type, val]: the decoded value, or the error of a payload that is
\* no encoding (a segment that still reads as zeros).
Decode(b) ==
    IF Len(b) < 2 \/ b[1] \notin {TagList, TagDict, TagValue}
    THEN [err |-> "UnpicklingError", type |-> "none", val |-> <<>>]
    ELSE IF b[1] = TagList
    THEN [err |-> "none", type |-> "list", val |-> DecodeNames(b, 3, b[2])]
    ELSE IF b[1] = TagDict
    THEN [err |-> "none", type |-> "dict", val |-> DecodeEntries(b, 3, b[2])]
    ELSE [err |-> "none", type |-> "value", val |-> SubSeq(b, 3, 2 + b[2])]

(***************************************************************************)
(* DataStoreSharedMemItem run to completion by a single process.           *)
(*                                                                         *)
(* A state S is [names, mem, ih, eh, err]: the kernel, the two handles the *)
(* store keeps, and the error raised so far ("none": no error).  A call    *)
(* that raised leaves S as it was when it raised.                          *)
(***************************************************************************)
Fail(S, e) == [S EXCEPT !.err = e]

\* F applied to the value of S, which is computed once.
Bind(S, F(_)) == CHOOSE r \in {F(X) : X \in {S}} : TRUE

\* Run F on S unless an error is already raised.
Then(S, F(_)) == Bind(S, LAMBDA X : IF X.err # "none" THEN X ELSE F(X))

\* DataStoreSharedMemItem(name, size): the assertions of __init__, then
\* open: attach to the segment of that name, or create it.
ItemOpenSeq(S, name, size) ==
    IF name = <<>> \/ Len(name) > SHARED_ITEM_NAME_MAX \/ size <= 0
    THEN Fail(S, "AssertionError")
    ELSE IF shared_memory_exists(S.names, name)
    THEN S
    ELSE [S EXCEPT !.names = CreatedNames(S.names, S.mem, name),
                   !.mem = CreatedMem(S.mem, size, page)]

\* The segment id is mapped by a handle of a store instance other than the
\* one S belongs to: its memory outlives the unlink of its name.
MappedByOthers(S, id) ==
    Cardinality({q \in DOMAIN inst : id \in {inst[q].ih.shm, inst[q].eh.shm}})
        > (IF id \in {S.ih.shm, S.eh.shm} THEN 1 ELSE 0)

\* delete() on a handle just opened on name: unlink, close.  Only
\* FileNotFoundError is caught: the error of a kernel that refuses the
\* unlink is raised.  The memory stays while a handle of a store maps it.
ItemDeleteSeq(S, name) ==
    IF ~shared_memory_exists(S.names, name)
    THEN S
    ELSE IF name \in faulty
    THEN Fail(S, "PermissionError")
    ELSE [S EXCEPT !.names = UnlinkedNames(S.names, name),
                   !.mem = IF \/ MappedByOthers(S, S.names[name])
                              \/ S.names[name] \in {S.ih.shm, S.eh.shm}
                           THEN @
                           ELSE DroppedMem(@, S.names[name])]

\* set(value) on a handle just opened on name (it holds no lock): the size
\* check, _acquire_lock (TimeoutError when the lock segment exists: nobody
\* else runs who could release it), the two writes, _release_lock.
ItemSetSeq(S, name, value) ==
    LET id == S.names[name]
    IN  IF TooBig(value, S.mem[id].size)
        THEN Fail(S, "ValueError")
        ELSE IF ~LockCreateSucceeds(S.names, LockName(name))
        THEN Fail(S, "TimeoutError")
        ELSE [S EXCEPT !.mem[id].buf =
                          IF Len(value) < S.mem[id].size
                          THEN ZeroFill(WriteValue(@, value), Len(value))
                          ELSE WriteValue(@, value)]

\* An error after _acquire_lock and before _release_lock: the lock segment
\* stays and the handle keeps _lock.
Leak(S, w, e) ==
    [S EXCEPT !.names = CreatedNames(S.names, S.mem, LockName(S[w].name)),
              !.mem = CreatedMem(S.mem, 1, page),
              ![w].lock = LockName(S[w].name),
              !.err = e]

\* update(func) on the handle w ("ih" or "eh") of the store.  F gives
\* [err, val]: the error func raises, or the new value.
ItemUpdateSeq(S, w, F(_)) ==
    LET hd == S[w]
        seg == S.mem[hd.shm]
        r == F(seg.buf)
    IN  IF hd.shm = NoSeg THEN Fail(S, "AssertionError")
        ELSE IF hd.lock # NoLock THEN Fail(S, "RuntimeError")
        ELSE IF ~LockCreateSucceeds(S.names, LockName(hd.name))
        THEN Fail(S, "TimeoutError")
        ELSE IF r.err # "none" THEN Leak(S, w, r.err)
        ELSE IF TooBig(r.val, seg.size) THEN Leak(S, w, "ValueError")
        ELSE [S EXCEPT !.mem[hd.shm].buf =
                          IF Len(r.val) < seg.size
                          THEN ZeroFill(WriteValue(@, r.val), Len(r.val))
                          ELSE WriteValue(@, r.val)]

(***************************************************************************)
(* DataStoreSharedMem: the helpers of the store                            *)
(***************************************************************************)
InSeq(x, l) == \E i \in 1..Len(l) : l[i] = x

\* list.remove(x): the first occurrence goes.
RemoveFirst(l, x) ==
    LET i == CHOOSE i \in 1..Len(l) : l[i] = x /\ \A j \in 1..(i - 1) : l[j] # x
    IN  SubSeq(l, 1, i - 1) \o SubSeq(l, i + 1, Len(l))

HasKey(d, k) == \E i \in 1..Len(d) : d[i].k = k

\* d[k] = t: in place when k is a key of d, else appended.
DictSet(d, k, t) ==
    IF HasKey(d, k)
    THEN [i \in 1..Len(d) |-> IF d[i].k = k THEN [k |-> k, t |-> t] ELSE d[i]]
    ELSE Append(d, [k |-> k, t |-> t])

\* del d[k], KeyError swallowed.
DictDel(d, k) == SelectSeq(d, LAMBDA e : e.k # k)

\* The decoded payload when it is of the wanted type, [err, val].
Typed(b, type) ==
    LET d == Decode(b)
    IN  IF d.err # "none" THEN [err |-> d.err, val |-> <<>>]
        ELSE IF d.type # type THEN [err |-> "TypeError", val |-> <<>>]
        ELSE [err |-> "none", val |-> d.val]

\* _get_index
GetIndex(S) ==
    IF S.ih.shm = NoSeg THEN [err |-> "AssertionError", val |-> <<>>]
    ELSE Typed(S.mem[S.ih.shm].buf, "list")

\* _get_expiry_dict
GetExpiryDict(S) ==
    IF S.eh.shm = NoSeg THEN [err |-> "AssertionError", val |-> <<>>]
    ELSE Typed(S.mem[S.eh.shm].buf, "dict")

\* Mutant of AddItemToIndex: the name is appended, present or not.
AddItemToIndexAlways(val, name) ==
    LET l == Typed(val, "list")
    IN  IF l.err # "none" THEN l
        ELSE [err |-> "none", val |-> EncodeList(Append(l.val, name))]

\* Mutant of AddItemToIndex: the name is not added.
AddItemToIndexDrop(val, name) == [err |-> "none", val |-> val]

\* _add_to_index._add_item_to_index
AddItemToIndex(val, name) ==
    LET l == Typed(val, "list")
    IN  IF l.err # "none" THEN l
        ELSE [err |-> "none",
              val |-> EncodeList(IF InSeq(name, l.val) THEN l.val
                                 ELSE Append(l.val, name))]

\* Mutant of RemoveItemFromIndex: the name stays in the list.
RemoveItemFromIndexKeep(val, name) == [err |-> "none", val |-> val]

\* _del_from_index._remove_item_from_index
RemoveItemFromIndex(val, name) ==
    LET l == Typed(val, "list")
    IN  IF l.err # "none" THEN l
        ELSE [err |-> "none",
              val |-> EncodeList(IF InSeq(name, l.val) THEN RemoveFirst(l.val, name)
                                 ELSE l.val)]

\* _add_to_expiry_dict._add_item_to_expiry_dict
AddItemToExpiryDict(val, name, t) ==
    LET d == Typed(val, "dict")
    IN  IF d.err # "none" THEN d
        ELSE [err |-> "none", val |-> EncodeDict(DictSet(d.val, name, t))]

\* _del_from_expiry_dict._remove_item_from_expiry_dict
RemoveItemFromExpiryDict(val, name) ==
    LET d == Typed(val, "dict")
    IN  IF d.err # "none" THEN d
        ELSE [err |-> "none", val |-> EncodeDict(DictDel(d.val, name))]

AddToIndex(S, name) ==
    IF name = <<>> THEN Fail(S, "AssertionError")
    ELSE ItemUpdateSeq(S, "ih", LAMBDA b : AddItemToIndex(b, name))

DelFromIndex(S, name) ==
    IF name = <<>> THEN Fail(S, "AssertionError")
    ELSE ItemUpdateSeq(S, "ih", LAMBDA b : RemoveItemFromIndex(b, name))

AddToExpiryDict(S, name, t) ==
    IF name = <<>> \/ t < 0 THEN Fail(S, "AssertionError")
    ELSE ItemUpdateSeq(S, "eh", LAMBDA b : AddItemToExpiryDict(b, name, t))

\* Mutant of DelFromExpiryDict: the entry stays.
DelFromExpiryDictSkip(S, name) == S

DelFromExpiryDict(S, name) ==
    IF name = <<>> THEN Fail(S, "AssertionError")
    ELSE ItemUpdateSeq(S, "eh", LAMBDA b : RemoveItemFromExpiryDict(b, name))

\* str(s).find(prefix) == 0
StartsWith(s, prefix) ==
    Len(prefix) <= Len(s) /\ SubSeq(s, 1, Len(prefix)) = prefix

\* The order of str: byte by byte, a proper prefix first.
LexLess(a, b) ==
    \/ Len(a) < Len(b) /\ SubSeq(b, 1, Len(a)) = a
    \/ \E i \in 1..Len(a) :
          /\ i <= Len(b)
          /\ SubSeq(a, 1, i - 1) = SubSeq(b, 1, i - 1)
          /\ a[i] < b[i]

\* Mutant of DotPrefix: the raw name, without the separator.
DotPrefixRaw(key) == key

\* f"{_key}." ("." is 46)
DotPrefix(key) == key \o <<46>>

\* _check_dot_name, the loop over sorted(keys) from position i on.
RECURSIVE CheckDotNameLoop(_, _, _)
CheckDotNameLoop(keys, i, name) ==
    IF i > Len(keys) THEN TRUE
    ELSE IF name = keys[i] THEN CheckDotNameLoop(keys, i + 1, name)
    ELSE IF StartsWith(name, DotPrefix(keys[i])) THEN FALSE
    ELSE IF StartsWith(keys[i], DotPrefix(name)) THEN FALSE
    ELSE CheckDotNameLoop(keys, i + 1, name)

\* _check_dot_name (name is not empty)
CheckDotName(keys, name) == CheckDotNameLoop(SortSeq(keys, LexLess), 1, name)

\* _filter_items: the names that start with prefix (all when it is empty).
FilterItems(items, prefix) ==
    IF prefix = <<>> THEN items
    ELSE SelectSeq(items, LAMBDA n : StartsWith(n, prefix))

(***************************************************************************)
(* DataStoreSharedMem: maintenance and the data access methods             *)
(***************************************************************************)
\* Mutant of IsExpired: every entry of the Expiry Table counts as expired.
IsExpiredAlways(now, expiry) == TRUE

\* if _now > _expiry
IsExpired(now, expiry) == now > expiry

\* The body of the loop of maintenance for one expired entry.
ExpireEntry(S, name) ==
    LET S1 == ItemOpenSeq(S, name, 1)
        S2 == Then(S1, LAMBDA X : ItemDeleteSeq(X, name))
        S3 == Then(S2, LAMBDA X : DelFromExpiryDict(X, name))
    IN  Then(S3, LAMBDA X : DelFromIndex(X, name))

RECURSIVE MaintenanceLoop(_, _, _, _)
MaintenanceLoop(S, entries, i, now) ==
    IF i > Len(entries) THEN S
    ELSE Then(S, LAMBDA X :
             MaintenanceLoop(
                 IF IsExpired(now, entries[i].t) THEN ExpireEntry(X, entries[i].k)
                 ELSE X,
                 entries, i + 1, now))

\* maintenance (_manual_expiry is True)
Maintenance(S, now) ==
    Bind(GetExpiryDict(S), LAMBDA d :
        IF d.err # "none" THEN Fail(S, d.err)
        ELSE MaintenanceLoop(S, d.val, 1, now))

\* has: [S, ret]
StoreHasSeq(S, name, now) ==
    Bind(Maintenance(S, now), LAMBDA S1 :
        LET idx == GetIndex(S1)
        IN  IF S1.err # "none" THEN [S |-> S1, ret |-> FALSE]
            ELSE IF idx.err # "none" THEN [S |-> Fail(S1, idx.err), ret |-> FALSE]
            ELSE [S |-> S1, ret |-> InSeq(name, idx.val)])

\* get: [S, ret]
StoreGetSeq(S, name, default, now) ==
    Bind(StoreHasSeq(S, name, now), LAMBDA hr :
        LET S1 == ItemOpenSeq(hr.S, name, 1)
            d == Decode(S1.mem[S1.names[name]].buf)
        IN  IF hr.S.err # "none" THEN [S |-> hr.S, ret |-> None]
            ELSE IF ~hr.ret THEN [S |-> hr.S, ret |-> default]
            ELSE IF S1.err # "none" THEN [S |-> S1, ret |-> None]
            ELSE IF d.err # "none" THEN [S |-> Fail(S1, d.err), ret |-> None]
            ELSE [S |-> S1, ret |-> d.val])

\* set: the check on dot names
DotNameCheckLate(S, name) ==
    LET idx == GetIndex(S)
    IN  IF ~store.dot THEN S
        ELSE IF idx.err # "none" THEN Fail(S, idx.err)
        ELSE IF name = <<>> THEN Fail(S, "AssertionError")
        ELSE IF ~CheckDotName(idx.val, name)
        THEN Fail(AddToIndex(S, name), "KeyError")
        ELSE S

DotNameCheck(S, name) ==
    LET idx == GetIndex(S)
    IN  IF ~store.dot THEN S
        ELSE IF idx.err # "none" THEN Fail(S, idx.err)
        ELSE IF name = <<>> THEN Fail(S, "AssertionError")
        ELSE IF ~CheckDotName(idx.val, name) THEN Fail(S, "KeyError")
        ELSE S

\* set
StoreSetSeq(S, name, value, timeout, now) ==
    IF timeout < 0 THEN Fail(S, "AssertionError")
    ELSE
    LET S1 == Maintenance(S, now)
        S2 == Then(S1, LAMBDA X : DotNameCheck(X, name))
        S3 == Then(S2, LAMBDA X : AddToIndex(X, name))
        S4 == Then(S3, LAMBDA X : ItemOpenSeq(X, name, 1))
        S5 == Then(S4, LAMBDA X : ItemSetSeq(X, name, EncodeValue(value)))
    IN  IF timeout > 0
        THEN Then(S5, LAMBDA X : AddToExpiryDict(X, name, now + timeout))
        ELSE S5

\* delete
StoreDeleteSeq(S, name, now) ==
    Bind(StoreHasSeq(S, name, now), LAMBDA hr :
        LET S1 == ItemOpenSeq(hr.S, name, 1)
            S2 == Then(S1, LAMBDA X : ItemDeleteSeq(X, name))
            S3 == Then(S2, LAMBDA X : DelFromExpiryDict(X, name))
        IN  IF hr.S.err # "none" \/ ~hr.ret THEN hr.S
            ELSE Then(S3, LAMBDA X : DelFromIndex(X, name)))

\* list: [S, ret]
StoreListSeq(S, prefix, now) ==
    Bind(Maintenance(S, now), LAMBDA S1 :
        LET idx == GetIndex(S1)
        IN  IF S1.err # "none" THEN [S |-> S1, ret |-> <<>>]
            ELSE IF idx.err # "none" THEN [S |-> Fail(S1, idx.err), ret |-> <<>>]
            ELSE [S |-> S1, ret |-> FilterItems(idx.val, prefix)])

(***************************************************************************)
(* Store specification: one process, one store, whole calls                *)
(***************************************************************************)
IndexName(name) == name \o INDEX_SUFFIX
ExpiryDictName(name) == name \o EXPIRY_DICT_SUFFIX

NoKernel == [names |-> <<>>, mem |-> <<>>, ih |-> NoHandle, eh |-> NoHandle,
             err |-> "none"]

\* A handle of the store opened on name.
Opened(S, w, name) ==
    [S EXCEPT ![w] = [name |-> name, shm |-> S.names[name], lock |-> NoLock]]

\* __init__: the Index and the Expiry Table are opened (created when they
\* do not exist) and set to the empty list and the empty dict.
StoreOpenSeq(S, name, index_size) ==
    LET size == IF index_size > DEFAULT_INDEX_SIZE THEN index_size
                ELSE DEFAULT_INDEX_SIZE
        S1 == ItemOpenSeq(S, IndexName(name), size)
        S2 == Then(S1, LAMBDA X : Opened(X, "ih", IndexName(name)))
        S3 == Then(S2, LAMBDA X : ItemSetSeq(X, IndexName(name), EncodeList(<<>>)))
        S4 == Then(S3, LAMBDA X : ItemOpenSeq(X, ExpiryDictName(name), size))
        S5 == Then(S4, LAMBDA X : Opened(X, "eh", ExpiryDictName(name)))
    IN  Then(S5, LAMBDA X : ItemSetSeq(X, ExpiryDictName(name), EncodeDict(<<>>)))

\* The state the calls of the store act on, and the state they leave.
Now == [names |-> names, mem |-> mem, ih |-> store.ih, eh |-> store.eh,
        err |-> "none"]

Commit(S) ==
    /\ names' = S.names
    /\ mem' = S.mem
    /\ store' = [store EXCEPT !.ih = S.ih, !.eh = S.eh]

\* History: the keys whose entry of the Expiry Table is past at instant now.
PastKeys(now) ==
    LET d == GetExpiryDict(Now)
    IN  IF d.err # "none" THEN {}
        ELSE {k \in DOMAIN stored : \E i \in 1..Len(d.val) :
                               d.val[i].k = k /\ now > d.val[i].t}

\* History after a call that sets or deletes no key.
Swept(now) ==
    \E past \in {PastKeys(now)} :
        /\ stored' = [k \in DOMAIN stored |-> IF k \in past THEN NoValue ELSE stored[k]]
        /\ deleted' = [k \in DOMAIN stored |-> IF k \in past /\ deleted[k] = 2 THEN 0
                                      ELSE deleted[k]]
        /\ UNCHANGED <<deadline, forever>>

StoreStartWith(keys, dot, index_size) ==
    /\ page \in {1, PageSize}
    /\ LET S == StoreOpenSeq(NoKernel, StoreName, index_size)
       IN  /\ names = S.names
           /\ mem = S.mem
           /\ store = [ih |-> S.ih, eh |-> S.eh, dot |-> dot]
    /\ clock = 0
    /\ called = -1
    /\ stored = [k \in keys |-> NoValue]
    /\ deleted = [k \in keys |-> 0]
    /\ deadline = [k \in keys |-> 0]
    /\ forever = [k \in keys |-> FALSE]
    /\ inst = <<>>
    /\ h = [p \in Procs |-> NoHandle]
    /\ pc = [p \in Procs |-> "idle"]
    /\ loc = [p \in Procs |-> NoLocals]
    /\ res = [p \in Procs |-> "none"]
    /\ ret = [p \in Procs |-> <<>>]
    /\ base = <<>>
    /\ call = [p \in Procs |-> NoCall]
    /\ wrote = [p \in Procs |-> FALSE]
    /\ tried = [p \in Procs |-> 0]

StoreStart == StoreStartWith(Keys, FALSE, 0)

\* The store is opened on a kernel that unlinks every segment.
StoreInit == StoreStart /\ faulty = {}

\* The store is opened on a kernel that refuses to unlink some key segment.
FaultInit == StoreStart /\ faulty \in {{k} : k \in Keys}

\* time passes
Tick ==
    /\ clock < MaxClock
    /\ clock' = clock + 1
    /\ UNCHANGED <<names, mem, page, itemVars, sharedVars, store, called, stored, deleted,
                   deadline, forever>>

StoreHas(name) ==
    \E r \in {StoreHasSeq(Now, name, clock)} :
        /\ Commit(r.S)
        /\ called' = clock
        /\ Swept(clock)
        /\ UNCHANGED <<page, itemVars, clock, sharedVars>>

StoreGet(name, default) ==
    \E r \in {StoreGetSeq(Now, name, default, clock)} :
        /\ Commit(r.S)
        /\ called' = clock
        /\ Swept(clock)
        /\ UNCHANGED <<page, itemVars, clock, sharedVars>>

StoreList(prefix) ==
    \E r \in {StoreListSeq(Now, prefix, clock)} :
        /\ Commit(r.S)
        /\ called' = clock
        /\ Swept(clock)
        /\ UNCHANGED <<page, itemVars, clock, sharedVars>>

StoreSet(name, value, timeout) ==
    \E S \in {StoreSetSeq(Now, name, value, timeout, clock)},
       past \in {PastKeys(clock)} :
    LET ok == S.err = "none"
    IN  /\ Commit(S)
        /\ called' = clock
        /\ stored' = [k \in DOMAIN stored |->
                        IF k = name /\ ok THEN value
                        ELSE IF k \in past THEN NoValue
                        ELSE stored[k]]
        /\ deleted' = [k \in DOMAIN stored |->
                        IF k = name
                        THEN (IF ok /\ deleted[k] = 1 THEN 2 ELSE 0)
                        ELSE IF k \in past /\ deleted[k] = 2 THEN 0
                        ELSE deleted[k]]
        /\ deadline' = [k \in DOMAIN stored |->
                        IF k # name THEN deadline[k]
                        ELSE IF ok /\ timeout > 0 THEN clock + timeout
                        ELSE 0]
        /\ forever' = [k \in DOMAIN stored |->
                        IF k # name THEN forever[k]
                        ELSE ok /\ timeout = 0]
        /\ UNCHANGED <<page, itemVars, clock, sharedVars>>

StoreDelete(name) ==
    \E S \in {StoreDeleteSeq(Now, name, clock)},
       past \in {PastKeys(clock)} :
    LET ok == S.err = "none"
    IN  /\ Commit(S)
        /\ called' = clock
        /\ stored' = [k \in DOMAIN stored |->
                        IF (k = name /\ ok) \/ k \in past THEN NoValue
                        ELSE stored[k]]
        /\ deleted' = [k \in DOMAIN stored |->
                        IF k = name /\ ok THEN 1
                        ELSE IF k \in past /\ deleted[k] = 2 THEN 0
                        ELSE deleted[k]]
        /\ deadline' = [k \in DOMAIN stored |-> IF k = name /\ ok THEN 0 ELSE deadline[k]]
        /\ forever' = [k \in DOMAIN stored |-> IF k = name /\ ok THEN FALSE ELSE forever[k]]
        /\ UNCHANGED <<page, itemVars, clock, sharedVars>>

StoreNext ==
    \/ Tick
    \/ \E k \in Keys : StoreHas(k)
    \/ \E k \in Keys, d \in Defaults : StoreGet(k, d)
    \/ \E x \in Prefixes : StoreList(x)
    \/ \E k \in Keys, v \in Values, t \in Timeouts : StoreSet(k, v, t)
    \/ \E k \in Keys : StoreDelete(k)

SpecStore == StoreInit /\ [][StoreNext]_vars

SpecFault == FaultInit /\ [][StoreNext]_vars

(***************************************************************************)
(* Store specification: claims                                             *)
(***************************************************************************)
\* What a call made in the current state returns: [S, ret].
HasNow(k) == StoreHasSeq(Now, k, clock)
GetNow(k, d) == StoreGetSeq(Now, k, d, clock)
ListNow(x) == StoreListSeq(Now, x, clock)

InIndex(k) ==
    LET idx == GetIndex(Now) IN idx.err = "none" /\ InSeq(k, idx.val)

InExpiryDict(k) ==
    LET d == GetExpiryDict(Now) IN d.err = "none" /\ HasKey(d.val, k)

\* has(k) is false, k is not listed, get(k) gives None and get(k, d) gives d.
ReadsAbsent(k) ==
    /\ HasNow(k).S.err = "none" /\ ~HasNow(k).ret
    /\ \A x \in Prefixes : ListNow(x).S.err = "none" /\ ~InSeq(k, ListNow(x).ret)
    /\ \A d \in Defaults : GetNow(k, d).S.err = "none" /\ GetNow(k, d).ret = d

\* has(k) is true and get(k), get(k, d) give v.
ReadsValue(k, v) ==
    /\ HasNow(k).S.err = "none" /\ HasNow(k).ret
    /\ \A d \in Defaults : GetNow(k, d).S.err = "none" /\ GetNow(k, d).ret = v

C8_DeleteMakesAbsent ==
    \A k \in Keys :
        /\ deleted[k] = 1 => ReadsAbsent(k)
        /\ (deleted[k] = 2 /\ k \notin PastKeys(clock)) =>
              /\ ReadsValue(k, stored[k])
              /\ shared_memory_exists(names, k)
              /\ Payload(k) = Padded(EncodeValue(stored[k]), mem[names[k]].size)

\* C8 witness: "a" held "yy", was deleted and then set to "x"; "b" is
\* deleted while it was listed.
C8_Witness ==
    /\ deleted[ItemA] = 2 /\ stored[ItemA] = <<120>>
    /\ deleted[ItemB] = 1 /\ called >= 0
    /\ GetNow(ItemA, None).ret = <<120>>
    /\ GetNow(ItemB, <<100>>).ret = <<100>>

\* C9: expiry.  After set(k, v, T) with T > 0 returned at instant now, has(k)
\* is true while the clock is before now + T; once a call was made with the
\* clock strictly past now + T, has(k) is false, k is in no list(), get(k, d)
\* returns d, and the segment of k and its entry of the Expiry Table are
\* gone.
C9_Expiry ==
    \A k \in Keys :
        deadline[k] > 0 =>
            /\ clock < deadline[k] => (HasNow(k).S.err = "none" /\ HasNow(k).ret)
            /\ called > deadline[k] =>
                  /\ ReadsAbsent(k)
                  /\ ~shared_memory_exists(names, k)
                  /\ ~InExpiryDict(k)

\* C9 witness: "a" was set with timeout 1, the clock went strictly past the
\* instant and a call was made: "a" is swept.
C9_Witness ==
    /\ deadline[ItemA] > 0 /\ called > deadline[ItemA]
    /\ ~InIndex(ItemA)
    /\ ~HasNow(ItemA).ret

\* C10: a timeout of 0 means never delete.  After set(k, v, 0) returned, and
\* until k is deleted or set again, k stays in the Index with its segment
\* and has(k) is true, whatever was done to k before.
C10_TimeoutZeroNeverDeleted ==
    \A k \in Keys :
        forever[k] =>
            /\ InIndex(k)
            /\ shared_memory_exists(names, k)
            /\ HasNow(k).ret

(***************************************************************************)
(* Maintenance sweep: claims                                               *)
(***************************************************************************)
\* The store after a sweep run in the current state.
SweptNow == Maintenance(Now, clock)

\* k has no segment, no entry of the Expiry Table and no name in the Index
\* in the store state S.
GoneIn(S, k) ==
    /\ ~shared_memory_exists(S.names, k)
    /\ GetExpiryDict(S).err = "none" /\ ~HasKey(GetExpiryDict(S).val, k)
    /\ GetIndex(S).err = "none" /\ ~InSeq(k, GetIndex(S).val)

\* C19: best-effort sweep.  When the kernel refuses to destroy the segment
\* of an expired key, the sweep raises nothing and every other expired key
\* loses its segment, its entry of the Expiry Table and its name in the
\* Index.
C19_BestEffortSweep ==
    /\ SweptNow.err = "none"
    /\ \A k \in PastKeys(clock) \ faulty : GoneIn(SweptNow, k)

\* C20: sweep boundary.  A sweep run at instant now removes every entry of
\* the Expiry Table whose instant is at or before now, with its name in the
\* Index and its segment, and keeps every entry whose instant is after now.
C20_SweepBoundary ==
    LET d == GetExpiryDict(Now)
    IN  d.err = "none" =>
            \A i \in 1..Len(d.val) :
                /\ d.val[i].t <= clock => GoneIn(SweptNow, d.val[i].k)
                /\ d.val[i].t > clock =>
                      HasKey(GetExpiryDict(SweptNow).val, d.val[i].k)

(***************************************************************************)
(* Dot name specification: _check_dot_name applied to bounded inputs       *)
(***************************************************************************)
\* Names are made of "2", "1" and "."; at most MaxNameLen bytes, and at
\* most MaxDotKeys keys.
MaxNameLen == 2
MaxDotKeys == 2
DotAlphabet == {50, 49, 46}
DotNames == UNION {[1..n -> DotAlphabet] : n \in 1..MaxNameLen}
DotKeyLists == UNION {[1..n -> DotNames] : n \in 0..MaxDotKeys}

\* The variables of the other specifications, at rest.
KernelAtRest == names = <<>> /\ mem = <<>> /\ page = 1 /\ faulty = {}

ItemAtRest ==
    /\ h = [p \in Procs |-> NoHandle]
    /\ pc = [p \in Procs |-> "idle"]
    /\ loc = [p \in Procs |-> NoLocals]
    /\ base = <<>>
    /\ wrote = [p \in Procs |-> FALSE]
    /\ tried = [p \in Procs |-> 0]

StoreAtRest ==
    /\ store = NoStore
    /\ clock = 0
    /\ called = -1
    /\ stored = <<>>
    /\ deleted = <<>>
    /\ deadline = <<>>
    /\ forever = <<>>

DotNameInit ==
    /\ KernelAtRest /\ ItemAtRest /\ StoreAtRest
    /\ inst = <<>>
    /\ \E keys \in DotKeyLists, name \in DotNames :
          call = [p \in Procs |-> [op |-> "_check_dot_name", arg |-> <<keys, name>>]]
    /\ res = [p \in Procs |-> "none"]
    /\ ret = [p \in Procs |-> <<>>]

\* Process 1 calls _check_dot_name(keys, name).
DotNameCall ==
    /\ res[1] = "none"
    /\ res' = [res EXCEPT ![1] = "returned"]
    /\ ret' = [ret EXCEPT ![1] = CheckDotName(call[1].arg[1], call[1].arg[2])]
    /\ UNCHANGED <<names, mem, page, h, pc, loc, base, call, wrote, tried,
                   storeVars, sharedVars>>

DotNameNext == DotNameCall

SpecDotName == DotNameInit /\ [][DotNameNext]_vars

\* C14: _check_dot_name(K, n) returns False exactly when some k in K other
\* than n has n starting with k + "." or k starting with n + "."; so it
\* returns True when n itself is the only related key, and when n shares a
\* prefix with a key without the separator after it.
C14_CheckDotName ==
    res[1] = "returned" =>
        LET keys == call[1].arg[1]
            name == call[1].arg[2]
        IN  ret[1] = ~\E i \in 1..Len(keys) :
                         /\ keys[i] # name
                         /\ \/ StartsWith(name, keys[i] \o <<46>>)
                            \/ StartsWith(keys[i], name \o <<46>>)

\* C14 witness: the keys are "2" and "21", the candidate is "21" and the
\* call returned True.
C14_Witness ==
    /\ res[1] = "returned"
    /\ call[1].arg = << << <<50>>, <<50, 49>> >>, <<50, 49>> >>
    /\ ret[1] = TRUE

(***************************************************************************)
(* Store with dot name checking enabled                                    *)
(***************************************************************************)

\* "a.b": a name below ItemA in the dot hierarchy.
ItemAB == ItemA \o <<46, 98>>

DotKeys == {ItemA, ItemAB}

\* index_size argument of the constructor: room for the Expiry Table of
\* both names.
DotIndexSize == IndexBytes + 2

DotStoreInit == StoreStartWith(DotKeys, TRUE, DotIndexSize) /\ faulty = {}

DotStoreNext ==
    \/ Tick
    \/ \E k \in DotKeys : StoreHas(k)
    \/ \E k \in DotKeys, d \in Defaults : StoreGet(k, d)
    \/ \E x \in Prefixes : StoreList(x)
    \/ \E k \in DotKeys, v \in Values, t \in Timeouts : StoreSet(k, v, t)
    \/ \E k \in DotKeys : StoreDelete(k)

SpecDotStore == DotStoreInit /\ [][DotStoreNext]_vars

\* The state a call leaves behind, its exception dropped.
Settled(S) == [S EXCEPT !.err = "none"]

\* Capacity of the segment of key k in S (0 when it has none).
SegmentSize(S, k) ==
    IF shared_memory_exists(S.names, k) THEN S.mem[S.names[k]].size ELSE 0

\* C15: with dot names on, a set rejected with KeyError changes nothing
\* beyond the maintenance sweep that precedes the check (Index, Expiry
\* Table and every segment are those the sweep left), every key stored
\* before still reads its value, and a set on a key already in the Index
\* is not rejected: it replaces the value whenever the value fits.
C15_DotRejectLeavesStore ==
    \A name \in DotKeys, v \in Values, t \in Timeouts :
        LET S == Bind(Now, LAMBDA X : StoreSetSeq(X, name, v, t, clock))
            idx == GetIndex(SweptNow)
        IN  /\ S.err = "KeyError" =>
                /\ S.names = SweptNow.names
                /\ S.mem = SweptNow.mem
                /\ \A k \in DotKeys :
                       (stored[k] # NoValue /\ k \notin PastKeys(clock)) =>
                           StoreGetSeq(Settled(S), k, None, clock).ret = stored[k]
            /\ (SweptNow.err = "none" /\ idx.err = "none" /\ InSeq(name, idx.val)) =>
                /\ S.err # "KeyError"
                /\ ~TooBig(EncodeValue(v), SegmentSize(SweptNow, name)) =>
                       /\ S.err = "none"
                       /\ StoreGetSeq(S, name, None, clock).ret = v

\* "a" is stored and a set of "a.b" is rejected.
C15_Witness ==
    /\ stored[ItemA] = <<120>>
    /\ called >= 0
    /\ StoreSetSeq(Now, ItemAB, <<120>>, 0, clock).err = "KeyError"
    /\ StoreSetSeq(Now, ItemA, <<121, 121>>, 0, clock).err = "none"

(***************************************************************************)
(* Open specification: handles opening, closing and deleting their item    *)
(***************************************************************************)
\* Sizes asked of open(): 0 is refused.
OpenSizes == 0..ItemSize

\* The segments still mapped by some handle other than p's, or still named.
Mapped(nm, hh, p) ==
    ({nm[n] : n \in DOMAIN nm} \cup {hh[q].shm : q \in Procs \ {p}}) \ {NoSeg}

\* The memory once handle p has let go of its mapping.
Released(m, nm, hh, p) == [i \in DOMAIN m \cap Mapped(nm, hh, p) |-> m[i]]

\* Two closed handles, on "a" and on "a" or "b"; no segment exists.
OpenInit ==
    /\ names = <<>> /\ mem = <<>> /\ faulty = {}
    /\ page \in {1, PageSize}
    /\ \E n2 \in ItemNames :
          h = [p \in Procs |->
                 [name |-> IF p = 1 THEN ItemA ELSE n2,
                  shm |-> NoSeg, lock |-> NoLock]]
    /\ pc = [p \in Procs |-> "idle"]
    /\ loc = [p \in Procs |-> NoLocals]
    /\ res = [p \in Procs |-> "none"]
    /\ ret = [p \in Procs |-> <<>>]
    /\ call = [p \in Procs |-> NoCall]
    /\ base = <<>>
    /\ wrote = [p \in Procs |-> FALSE]
    /\ tried = [p \in Procs |-> 0]
    /\ StoreAtRest
    /\ inst = <<>>

(***************************************************************************)
(* Shared specification: two processes, each with its own instance of one  *)
(* store.  Construction, cleanup, delete and the sweep are one step each;   *)
(* set is three steps (sweep and Index, item, Expiry Table), between which *)
(* the other process runs.                                                 *)
(***************************************************************************)
\* A name one character longer than an item name may be.
LongKey == [i \in 1..(SHARED_ITEM_NAME_MAX + 1) |-> 107]

SharedKeys == {ItemA, LongKey}

\* index_size argument of the constructors: room for both names.
SharedIndexSize == IndexBytes + SHARED_ITEM_NAME_MAX + 3

SharedValue == <<120>>

NoInst == [ih |-> NoHandle, eh |-> NoHandle, own |-> FALSE, live |-> FALSE,
           reseeded |-> FALSE]

\* History: constructing on kernel S, which gave T, replaced the payload of
\* an Index or of an Expiry Table that existed.
Reseeded(S, T) ==
    \E n \in {IndexName(StoreName), ExpiryDictName(StoreName)} :
        /\ shared_memory_exists(S.names, n)
        /\ T.mem[T.names[n]].buf # S.mem[S.names[n]].buf

\* The state the calls of process p act on.
View(p) == [names |-> names, mem |-> mem, ih |-> inst[p].ih, eh |-> inst[p].eh,
            err |-> "none"]

CommitShared(p, S) ==
    /\ names' = S.names
    /\ mem' = S.mem
    /\ inst' = [inst EXCEPT ![p].ih = S.ih, ![p].eh = S.eh]

SharedInit ==
    /\ names = <<>> /\ mem = <<>> /\ faulty = {}
    /\ page \in {1, PageSize}
    /\ inst = [p \in Procs |-> NoInst]
    /\ h = [p \in Procs |-> NoHandle]
    /\ pc = [p \in Procs |-> "idle"]
    /\ loc = [p \in Procs |-> NoLocals]
    /\ res = [p \in Procs |-> "none"]
    /\ ret = [p \in Procs |-> <<>>]
    /\ call = [p \in Procs |-> NoCall]
    /\ base = <<>>
    /\ wrote = [p \in Procs |-> FALSE]
    /\ tried = [p \in Procs |-> 0]
    /\ StoreAtRest

\* DataStoreSharedMem(name, index_size, delete_on_cleanup)
Construct(p, own) ==
    /\ pc[p] = "idle" /\ ~inst[p].live
    /\ \E S \in {StoreOpenSeq(View(p), StoreName, SharedIndexSize)} :
          /\ names' = S.names
          /\ mem' = S.mem
          /\ inst' = [inst EXCEPT ![p] =
                        IF S.err = "none"
                        THEN [ih |-> S.ih, eh |-> S.eh, own |-> own,
                              live |-> TRUE,
                              reseeded |-> Reseeded(View(p), S)]
                        ELSE @]
    /\ UNCHANGED <<page, itemVars, storeVars, faulty>>

\* close() of the handle w of the store: the mapping goes, and with it the
\* memory of a segment that has lost its name and its other mappings.
HandleCloseSeq(S, w) ==
    LET id == S[w].shm
        named == \E n \in DOMAIN S.names : S.names[n] = id
    IN  IF id = NoSeg THEN Fail(S, "AssertionError")
        ELSE [S EXCEPT ![w].shm = NoSeg,
                       !.mem = IF named \/ MappedByOthers(S, id) THEN @
                               ELSE DroppedMem(@, id)]

\* delete() of the handle w of the store: unlink the name, close.
HandleDeleteSeq(S, w) ==
    IF S[w].shm = NoSeg THEN Fail(S, "AssertionError")
    ELSE Bind(ItemDeleteSeq(S, S[w].name), LAMBDA S1 :
             IF S1.err # "none" THEN S1 ELSE HandleCloseSeq(S1, w))

\* Mutant of Release: the segment is destroyed whatever the flag.
ReleaseAlways(S, w, own) == HandleDeleteSeq(S, w)

\* cleanup: "try: delete() if delete_on_cleanup else close(); except: pass"
Release(S, w, own) ==
    Bind(IF own THEN HandleDeleteSeq(S, w) ELSE HandleCloseSeq(S, w),
         LAMBDA S1 : IF S1.err # "none" THEN S ELSE S1)

\* cleanup: the loop over the names of the Index, outside any try.
RECURSIVE CleanupLoop(_, _, _)
CleanupLoop(S, index, i) ==
    IF i > Len(index) THEN S
    ELSE Then(S, LAMBDA X :
             CleanupLoop(
                 Then(ItemOpenSeq(X, index[i], 1),
                      LAMBDA Y : ItemDeleteSeq(Y, index[i])),
                 index, i + 1))

\* cleanup
CleanupSeq(S, own) ==
    LET S1 == Release(S, "eh", own)
        idx == GetIndex(S1)
        S2 == IF ~own THEN S1
              ELSE CleanupLoop(S1, IF idx.err # "none" THEN <<>> ELSE idx.val, 1)
    IN  Then(S2, LAMBDA X : Release(X, "ih", own))

Cleanup(p) ==
    /\ pc[p] = "idle" /\ inst[p].live
    /\ \E S \in {CleanupSeq(View(p), inst[p].own)} : CommitShared(p, S)
    /\ UNCHANGED <<page, itemVars, storeVars, faulty>>

\* set, up to the Index: maintenance, the dot check, _add_to_index
SetIndex(p, name, timeout) ==
    /\ pc[p] = "idle" /\ inst[p].live
    /\ \E S \in {Then(Then(Maintenance(View(p), clock),
                           LAMBDA X : DotNameCheck(X, name)),
                      LAMBDA X : AddToIndex(X, name))} :
          /\ CommitShared(p, S)
          /\ IF S.err # "none"
             THEN UNCHANGED <<pc, loc>>
             ELSE /\ pc' = [pc EXCEPT ![p] = "set_item"]
                  /\ loc' = [loc EXCEPT ![p] =
                               [NoLocals EXCEPT !.op = "set", !.arg = name,
                                                !.waited = timeout]]
    /\ UNCHANGED <<page, h, res, ret, base, call, wrote, tried, storeVars, faulty>>

\* set: DataStoreSharedMemItem(name), _item.set(value), _item.close()
SetItem(p) ==
    /\ pc[p] = "set_item"
    /\ \E S \in {Then(ItemOpenSeq(View(p), loc[p].arg, 1),
                      LAMBDA X : ItemSetSeq(X, loc[p].arg,
                                            EncodeValue(SharedValue)))} :
          /\ CommitShared(p, S)
          /\ IF S.err = "none" /\ loc[p].waited > 0
             THEN /\ pc' = [pc EXCEPT ![p] = "set_expiry"]
                  /\ loc' = loc
             ELSE /\ pc' = [pc EXCEPT ![p] = "idle"]
                  /\ loc' = [loc EXCEPT ![p] = NoLocals]
    /\ UNCHANGED <<page, h, res, ret, base, call, wrote, tried, storeVars, faulty>>

\* set: _add_to_expiry_dict(name, timestamp(offset=timeout))
SetExpiry(p) ==
    /\ pc[p] = "set_expiry"
    /\ \E S \in {AddToExpiryDict(View(p), loc[p].arg, clock + loc[p].waited)} :
          CommitShared(p, S)
    /\ pc' = [pc EXCEPT ![p] = "idle"]
    /\ loc' = [loc EXCEPT ![p] = NoLocals]
    /\ UNCHANGED <<page, h, res, ret, base, call, wrote, tried, storeVars, faulty>>

SharedDelete(p, name) ==
    /\ pc[p] = "idle" /\ inst[p].live
    /\ \E S \in {StoreDeleteSeq(View(p), name, clock)} : CommitShared(p, S)
    /\ UNCHANGED <<page, itemVars, storeVars, faulty>>

\* maintenance(), alone or at the head of has, get and list
Sweep(p) ==
    /\ pc[p] = "idle" /\ inst[p].live
    /\ \E S \in {Maintenance(View(p), clock)} : CommitShared(p, S)
    /\ UNCHANGED <<page, itemVars, storeVars, faulty>>

SharedNext ==
    \/ Tick
    \/ \E p \in Procs, own \in BOOLEAN : Construct(p, own)
    \/ \E p \in Procs : Cleanup(p)
    \/ \E p \in Procs, k \in SharedKeys, t \in Timeouts : SetIndex(p, k, t)
    \/ \E p \in Procs : SetItem(p)
    \/ \E p \in Procs : SetExpiry(p)
    \/ \E p \in Procs, k \in SharedKeys : SharedDelete(p, k)
    \/ \E p \in Procs : Sweep(p)

SpecShared == SharedInit /\ [][SharedNext]_vars

(***************************************************************************)
(* Claims on the shared specification                                      *)
(***************************************************************************)
StoreExists ==
    /\ shared_memory_exists(names, IndexName(StoreName))
    /\ shared_memory_exists(names, ExpiryDictName(StoreName))

\* The names in the Index segment and the entries in the Expiry Table
\* segment, as a fresh attach would read them.
IndexNow ==
    IF shared_memory_exists(names, IndexName(StoreName))
    THEN Typed(Payload(IndexName(StoreName)), "list").val ELSE <<>>

ExpiryNow ==
    IF shared_memory_exists(names, ExpiryDictName(StoreName))
    THEN Typed(Payload(ExpiryDictName(StoreName)), "dict").val ELSE <<>>

\* No construction has replaced a payload of the store.
NoReseed == \A p \in Procs : ~inst[p].reseeded

\* The handles of process p are open.
Open(p) == inst[p].live /\ inst[p].ih.shm # NoSeg /\ inst[p].eh.shm # NoSeg

\* C11: constructing a further instance of a store that exists leaves the
\* payloads of the Index and of the Expiry Table as they are, and every
\* name of the Index is reported by has() of the new instance.
C11_ConstructAttaches ==
    \A p \in Procs :
        (pc[p] = "idle" /\ ~inst[p].live /\ StoreExists) =>
            LET S == Bind(View(p), LAMBDA X :
                         StoreOpenSeq(X, StoreName, SharedIndexSize))
            IN  /\ S.err = "none"
                /\ S.mem[S.names[IndexName(StoreName)]].buf
                       = Payload(IndexName(StoreName))
                /\ S.mem[S.names[ExpiryDictName(StoreName)]].buf
                       = Payload(ExpiryDictName(StoreName))
                /\ \A k \in SharedKeys :
                       InSeq(k, IndexNow) => InSeq(k, GetIndex(S).val)

\* C12: when no call is in progress, and no construction has re-seeded the
\* store, a name is in the Index exactly when its segment exists.
C12_IndexMatchesSegments ==
    (AllIdle /\ StoreExists /\ NoReseed) =>
        \A k \in SharedKeys :
            InSeq(k, IndexNow) <=> shared_memory_exists(names, k)

\* C13: when no call is in progress, every key with an entry in the Expiry
\* Table is in the Index.
C13_ExpiryCoveredByIndex ==
    (AllIdle /\ StoreExists /\ NoReseed) =>
        \A k \in SharedKeys : HasKey(ExpiryNow, k) => InSeq(k, IndexNow)

\* C16: cleanup() of an instance with delete_on_cleanup False raises
\* nothing, leaves every name and every payload as it is, and the handles
\* of the other instance still read the Index and the Expiry Table.
C16_CloseOnlyCleanup ==
    \A p \in Procs :
        (pc[p] = "idle" /\ inst[p].live /\ ~inst[p].own) =>
            LET S == Bind(View(p), LAMBDA X : CleanupSeq(X, inst[p].own))
                q == Peer(p)
                Sq == [S EXCEPT !.ih = inst[q].ih, !.eh = inst[q].eh]
            IN  /\ S.err = "none"
                /\ S.names = names
                /\ \A n \in DOMAIN names : S.mem[S.names[n]] = mem[names[n]]
                /\ S.ih.shm = NoSeg /\ S.eh.shm = NoSeg
                /\ Open(q) =>
                      /\ GetIndex(Sq) = GetIndex(View(q))
                      /\ GetExpiryDict(Sq) = GetExpiryDict(View(q))
                      /\ GetIndex(Sq).err = "none"

\* C16 witness: process 1 does not own the store and has cleaned up; the
\* key "a" is still in the Index with its segment holding its value, and
\* process 2 still has the store open.
C16_Witness ==
    /\ inst[1].live /\ ~inst[1].own /\ ~Open(1)
    /\ inst[1].ih.shm = NoSeg /\ inst[1].eh.shm = NoSeg
    /\ Open(2) /\ AllIdle
    /\ InSeq(ItemA, IndexNow)
    /\ shared_memory_exists(names, ItemA)
    /\ Decode(Payload(ItemA)).val = SharedValue
    /\ InSeq(ItemA, GetIndex(View(2)).val)

\* C17: cleanup() of an instance with delete_on_cleanup True raises
\* nothing and leaves no Index segment, no Expiry Table segment and no
\* segment of a name the Index listed; a second cleanup() raises nothing
\* and changes nothing.
C17_OwningCleanup ==
    \A p \in Procs :
        (pc[p] = "idle" /\ Open(p) /\ inst[p].own) =>
            LET S == Bind(View(p), LAMBDA X : CleanupSeq(X, inst[p].own))
                T == Bind(Settled(S), LAMBDA X : CleanupSeq(X, inst[p].own))
                idx == GetIndex(View(p))
            IN  /\ S.err = "none"
                /\ ~shared_memory_exists(S.names, IndexName(StoreName))
                /\ ~shared_memory_exists(S.names, ExpiryDictName(StoreName))
                /\ \A k \in SharedKeys :
                       InSeq(k, idx.val) => ~shared_memory_exists(S.names, k)
                /\ T.err = "none"
                /\ T.names = S.names /\ T.mem = S.mem

(***************************************************************************)
(* Lock specification: the handles call _acquire_lock and _release_lock    *)
(* directly, one call after the other, in any order.                       *)
(***************************************************************************)
\* Mutant of AcquireRefused: a handle that holds its lock is let in.
AcquireRefusedNever(p) == FALSE

\* _acquire_lock: "if isinstance(self._lock, SharedMemory): raise
\* RuntimeError" (the lock name always is the handle's own).
AcquireRefused(p) == h[p].lock # NoLock

\* Mutant of ReleaseRefused: a handle that holds no lock is let through.
ReleaseRefusedNever(p) == FALSE

\* _release_lock: "if not isinstance(self._lock, SharedMemory): raise
\* RuntimeError"
ReleaseRefused(p) == h[p].lock = NoLock

\* Entry of _acquire_lock.
LockAcquire(p) ==
    /\ pc[p] = "idle"
    /\ call' = [call EXCEPT ![p] = [op |-> "_acquire_lock", arg |-> <<>>]]
    /\ IF AcquireRefused(p)
       THEN /\ res' = [res EXCEPT ![p] = "RuntimeError"]
            /\ UNCHANGED <<pc, loc>>
       ELSE /\ res' = [res EXCEPT ![p] = "none"]
            /\ pc' = [pc EXCEPT ![p] = "acquire"]
            /\ loc' = [loc EXCEPT ![p] = [NoLocals EXCEPT !.op = "_acquire_lock"]]
    /\ UNCHANGED <<names, mem, page, h, ret, base, wrote, tried>>
    /\ UNCHANGED <<storeVars, sharedVars>>

\* One turn of the loop of _acquire_lock.  The locals of the call stay as
\* they were when it returned or raised.
LockTry(p) ==
    /\ pc[p] = "acquire"
    /\ IF LockCreateSucceeds(names, LockName(h[p].name))
       THEN /\ names' = CreatedNames(names, mem, LockName(h[p].name))
            /\ mem' = CreatedMem(mem, 1, page)
            /\ h' = [h EXCEPT ![p].lock = LockName(h[p].name)]
            /\ pc' = [pc EXCEPT ![p] = "idle"]
            /\ res' = [res EXCEPT ![p] = "ok"]
            /\ loc' = loc
       ELSE /\ loc' = [loc EXCEPT ![p].waited = @ + LOCK_RETRY]
            /\ IF TimedOut(loc[p].waited + LOCK_RETRY)
               THEN /\ pc' = [pc EXCEPT ![p] = "idle"]
                    /\ res' = [res EXCEPT ![p] = "TimeoutError"]
               ELSE UNCHANGED <<pc, res>>
            /\ UNCHANGED <<names, mem, h>>
    /\ UNCHANGED <<page, ret, base, call, wrote, tried>>
    /\ UNCHANGED <<storeVars, sharedVars>>

\* _release_lock.  History: the calls waiting for this lock learn that it
\* was released.
LockRelease(p) ==
    /\ pc[p] = "idle"
    /\ call' = [call EXCEPT ![p] = [op |-> "_release_lock", arg |-> <<>>]]
    /\ IF ReleaseRefused(p)
       THEN /\ res' = [res EXCEPT ![p] = "RuntimeError"]
            /\ UNCHANGED <<names, mem, h, loc>>
       ELSE /\ mem' = IF shared_memory_exists(names, h[p].lock)
                      THEN DroppedMem(mem, names[h[p].lock]) ELSE mem
            /\ names' = UnlinkedNames(names, h[p].lock)
            /\ h' = [h EXCEPT ![p].lock = NoLock]
            /\ res' = [res EXCEPT ![p] = "ok"]
            /\ loc' = [q \in Procs |->
                         IF q # p /\ pc[q] = "acquire" /\ h[q].name = h[p].name
                         THEN [loc[q] EXCEPT !.freed = TRUE] ELSE loc[q]]
    /\ UNCHANGED <<page, pc, ret, base, wrote, tried>>
    /\ UNCHANGED <<storeVars, sharedVars>>

LockNext ==
    \/ \E p \in Procs : LockAcquire(p)
    \/ \E p \in Procs : LockTry(p)
    \/ \E p \in Procs : LockRelease(p)

SpecLock == Init /\ [][LockNext]_vars

\* The scheduler lets every process run: a call inside the loop of
\* _acquire_lock takes its next turn.
SpecLockFair == SpecLock /\ \A p \in Procs : WF_vars(LockTry(p))

(***************************************************************************)
(* Claims on the lock specification                                        *)
(***************************************************************************)
Waiting(p) == pc[p] = "acquire"

LockFree(p) == ~shared_memory_exists(names, LockName(h[p].name))

\* C21, as the code has it: a call of _acquire_lock waits less than the
\* budget while it runs and always ends, with the lock or with
\* TimeoutError; it raises TimeoutError only once its wait has reached
\* LOCK_WAIT_TIMEOUT, holding nothing; and a turn of its loop taken while
\* the lock resource does not exist obtains the lock.
C21_AcquireTerminates ==
    /\ [](\A p \in Procs : Waiting(p) => loc[p].waited < LOCK_WAIT_TIMEOUT)
    /\ [](\A p \in Procs :
             (call[p].op = "_acquire_lock" /\ res[p] = "TimeoutError") =>
                 /\ loc[p].waited >= LOCK_WAIT_TIMEOUT
                 /\ ~HoldsLock(p))
    /\ [][\A p \in Procs :
             (LockTry(p) /\ LockFree(p)) => (HoldsLock(p))' /\ res'[p] = "ok"]_vars
    /\ \A p \in Procs :
          Waiting(p) ~> (pc[p] = "idle" /\ res[p] \in {"ok", "TimeoutError"})

\* C21 witness: process 2 found the lock taken, the holder released it, and
\* process 2 then obtained it.
C21_Witness ==
    /\ call[2].op = "_acquire_lock" /\ res[2] = "ok" /\ HoldsLock(2)
    /\ loc[2].waited > 0 /\ loc[2].freed

\* C21 as stated: a call that waited for a lock which was released during
\* its wait does not end with TimeoutError.
C21_ReleaseLetsWaiterIn ==
    \A p \in Procs :
        (call[p].op = "_acquire_lock" /\ res[p] = "TimeoutError") => ~loc[p].freed

\* C22: _acquire_lock by a handle that holds its lock raises RuntimeError
\* and the handle still holds the lock; _release_lock by a handle that
\* holds no lock raises RuntimeError; neither call creates, unlinks or
\* changes a segment or a handle, so a lock held by another handle stays.
C22_LockMisuseRejected ==
    /\ [](\A p \in Procs :
             HoldsLock(p) => shared_memory_exists(names, LockName(h[p].name)))
    /\ [][\A p \in Procs :
             /\ (LockAcquire(p) /\ HoldsLock(p)) =>
                    /\ res'[p] = "RuntimeError"
                    /\ UNCHANGED <<names, mem, h>>
             /\ (LockRelease(p) /\ ~HoldsLock(p)) =>
                    /\ res'[p] = "RuntimeError"
                    /\ UNCHANGED <<names, mem, h>>]_vars

\* C22 witness: handle 2 holds the lock of "a" and was refused a second
\* acquire; handle 1, on "a" too, holds nothing and was refused a release.
C22_Witness ==
    /\ SameItem /\ AllIdle
    /\ HoldsLock(2) /\ call[2].op = "_acquire_lock" /\ res[2] = "RuntimeError"
    /\ ~HoldsLock(1) /\ call[1].op = "_release_lock" /\ res[1] = "RuntimeError"
    /\ shared_memory_exists(names, LockName(ItemA))

(***************************************************************************)
(* Further claims on the item specification                                *)
(***************************************************************************)
\* The other process made no write to the item of p in this round.
AloneOnItem(p) ==
    \/ ~SameItem
    \/ (pc[Peer(p)] = "idle" /\ call[Peer(p)].op \in {"none", "get"})

\* C23: once a set or an update has returned normally, and no other call
\* wrote to the item, the payload is the new value followed by zeros up to
\* the capacity, whatever the payload was before; and get returns the
\* whole payload, capacity bytes long.
C23_ZeroPaddedOverwrite ==
    \A p \in Procs :
        /\ (pc[p] = "idle" /\ res[p] = "ok" /\ call[p].op = "set" /\ AloneOnItem(p)) =>
               /\ Payload(h[p].name) = call[p].arg \o Zeros(SegOf(p).size - Len(call[p].arg))
               /\ Len(Payload(h[p].name)) = SegOf(p).size
        /\ (pc[p] = "idle" /\ res[p] = "ok" /\ call[p].op = "update" /\ AloneOnItem(p)) =>
               LET new == Apply(call[p].arg, base[h[p].name])
               IN  /\ Payload(h[p].name) = new \o Zeros(SegOf(p).size - Len(new))
                   /\ Len(Payload(h[p].name)) = SegOf(p).size
        /\ (res[p] = "ok" /\ call[p].op = "get") =>
               /\ Len(ret[p]) = SegOf(p).size
               /\ (res[Peer(p)] = "none" /\ pc[Peer(p)] = "idle")
                      => ret[p] = base[h[p].name]

\* C23 witness: the item held two non-zero bytes, a set of one byte
\* returned, and the second byte of the payload is zero.
C23_Witness ==
    /\ base[ItemA] = <<1, 2>>
    /\ pc[1] = "idle" /\ res[1] = "ok" /\ call[1] = [op |-> "set", arg |-> <<3>>]
    /\ AloneOnItem(1)
    /\ Payload(ItemA) = <<3, 0>>

(***************************************************************************)
(* Open specification: the steps.  A handle opens, closes, deletes, reads  *)
(* and writes its item; set and update are one step each (what they do     *)
(* under the lock is the item specification's matter).                     *)
(***************************************************************************)
\* Values handed to set, transforms handed to update.
OpenValues == {<<3>>, [i \in 1..(PageSize + 1) |-> 5]}
OpenFuncs == {"append1", "raise"}

\* Mutant of AttachedMem: attaching cuts the segment to the size asked for.
AttachedMemResized(m, id, size) ==
    [m EXCEPT ![id] = [size |-> size, buf |-> Zeros(size)]]

\* SharedMemory(name, create=False): the segment is mapped as it is, the
\* size asked of open() is not used.
AttachedMem(m, id, size) == m

\* Mutant of OpenRefused: only the size is looked at.
OpenRefusedSizeOnly(p, size) == size <= 0

\* open: "assert size > 0", "assert not self._shm"
OpenRefused(p, size) == size <= 0 \/ h[p].shm # NoSeg

\* get, set, update, close, delete: "assert isinstance(self._shm,
\* SharedMemory)"
NotOpen(p) == h[p].shm = NoSeg

\* Mutant of Outcome: every call waits for the item's lock.
OutcomeBlocked(p, op, arg, outcome) ==
    /\ call' = [call EXCEPT ![p] = [op |-> op, arg |-> arg]]
    /\ res' = [res EXCEPT ![p] =
                 IF shared_memory_exists(names, LockName(h[p].name))
                 THEN "TimeoutError" ELSE outcome]

\* A call of one step returns or raises.
Outcome(p, op, arg, outcome) ==
    /\ call' = [call EXCEPT ![p] = [op |-> op, arg |-> arg]]
    /\ res' = [res EXCEPT ![p] = outcome]

\* open(size), first half: the assertions, then SharedMemory(name,
\* create=False).  The handle is attached when the segment exists;
\* FileNotFoundError sets _create_shm.
OpenAttach(p, size) ==
    /\ pc[p] = "idle" /\ res[p] = "none"
    /\ IF OpenRefused(p, size)
       THEN /\ Outcome(p, "open", size, "AssertionError")
            /\ UNCHANGED <<mem, h, pc, loc>>
       ELSE IF shared_memory_exists(names, h[p].name)
       THEN /\ Outcome(p, "open", size, "ok")
            /\ h' = [h EXCEPT ![p].shm = names[h[p].name]]
            /\ mem' = AttachedMem(mem, names[h[p].name], size)
            /\ UNCHANGED <<pc, loc>>
       ELSE /\ call' = [call EXCEPT ![p] = [op |-> "open", arg |-> size]]
            /\ pc' = [pc EXCEPT ![p] = "open_create"]
            /\ loc' = [loc EXCEPT ![p] = [NoLocals EXCEPT !.op = "open",
                                                         !.arg = size]]
            /\ UNCHANGED <<mem, h, res>>
    /\ UNCHANGED <<names, page, ret, base, wrote, tried>>
    /\ UNCHANGED <<storeVars, sharedVars>>

\* open(size), second half: SharedMemory(name, create=True, size).  The
\* creation raises FileExistsError when the name has appeared meanwhile.
OpenCreate(p) ==
    /\ pc[p] = "open_create"
    /\ IF shared_memory_exists(names, h[p].name)
       THEN /\ Return(p, "FileExistsError")
            /\ UNCHANGED <<names, mem, h>>
       ELSE /\ names' = CreatedNames(names, mem, h[p].name)
            /\ mem' = CreatedMem(mem, loc[p].arg, page)
            /\ h' = [h EXCEPT ![p].shm = FreshId(mem)]
            /\ Return(p, "ok")
    /\ UNCHANGED <<page, ret, base, call, wrote, tried>>
    /\ UNCHANGED <<storeVars, sharedVars>>

\* close(): the mapping goes, the name stays.
ItemClose(p) ==
    /\ pc[p] = "idle" /\ res[p] = "none"
    /\ IF NotOpen(p)
       THEN /\ Outcome(p, "close", <<>>, "AssertionError")
            /\ UNCHANGED <<mem, h>>
       ELSE /\ Outcome(p, "close", <<>>, "ok")
            /\ h' = [h EXCEPT ![p].shm = NoSeg]
            /\ mem' = Released(mem, names, h, p)
    /\ UNCHANGED <<names, page, pc, loc, ret, base, wrote, tried>>
    /\ UNCHANGED <<storeVars, sharedVars>>

\* delete(): unlink the name (FileNotFoundError is swallowed), close.
ItemDelete(p) ==
    /\ pc[p] = "idle" /\ res[p] = "none"
    /\ IF NotOpen(p)
       THEN /\ Outcome(p, "delete", <<>>, "AssertionError")
            /\ UNCHANGED <<names, mem, h>>
       ELSE /\ Outcome(p, "delete", <<>>, "ok")
            /\ h' = [h EXCEPT ![p].shm = NoSeg]
            /\ names' = UnlinkedNames(names, h[p].name)
            /\ mem' = Released(mem, UnlinkedNames(names, h[p].name), h, p)
    /\ UNCHANGED <<page, pc, loc, ret, base, wrote, tried>>
    /\ UNCHANGED <<storeVars, sharedVars>>

\* get(): the whole buffer, without the lock.
OpenGet(p) ==
    /\ pc[p] = "idle" /\ res[p] = "none"
    /\ IF NotOpen(p)
       THEN /\ Outcome(p, "get", <<>>, "AssertionError")
            /\ ret' = ret
       ELSE /\ Outcome(p, "get", <<>>, "ok")
            /\ ret' = [ret EXCEPT ![p] = SegOf(p).buf]
    /\ UNCHANGED <<names, mem, page, h, pc, loc, base, wrote, tried>>
    /\ UNCHANGED <<storeVars, sharedVars>>

\* What _acquire_lock raises for handle p when nobody gives the lock back
\* in time ("none": the lock is obtained).
AcquireOutcome(p) ==
    IF AcquireRefused(p) THEN "RuntimeError"
    ELSE IF ~LockCreateSucceeds(names, LockName(h[p].name)) THEN "TimeoutError"
    ELSE "none"

\* set(value), whole.
OpenSet(p, value) ==
    /\ pc[p] = "idle" /\ res[p] = "none"
    /\ IF NotOpen(p)
       THEN /\ Outcome(p, "set", value, "AssertionError")
            /\ mem' = mem
       ELSE IF TooBig(value, SegOf(p).size)
       THEN /\ Outcome(p, "set", value, "ValueError")
            /\ mem' = mem
       ELSE IF AcquireOutcome(p) # "none"
       THEN /\ Outcome(p, "set", value, AcquireOutcome(p))
            /\ mem' = mem
       ELSE /\ Outcome(p, "set", value, "ok")
            /\ mem' = [mem EXCEPT ![h[p].shm].buf =
                         ZeroFill(WriteValue(@, value), Len(value))]
    /\ UNCHANGED <<names, page, h, pc, loc, ret, base, wrote, tried>>
    /\ UNCHANGED <<storeVars, sharedVars>>

\* update(func), whole.  An error of func and the ValueError of the size
\* check leave update with the lock held.
OpenUpdate(p, f) ==
    /\ pc[p] = "idle" /\ res[p] = "none"
    /\ IF NotOpen(p)
       THEN /\ Outcome(p, "update", f, "AssertionError")
            /\ UNCHANGED <<names, mem, h>>
       ELSE IF AcquireOutcome(p) # "none"
       THEN /\ Outcome(p, "update", f, AcquireOutcome(p))
            /\ UNCHANGED <<names, mem, h>>
       ELSE IF FuncRaises(f) \/ TooBig(Apply(f, SegOf(p).buf), SegOf(p).size)
       THEN /\ Outcome(p, "update", f,
                       IF FuncRaises(f) THEN "FuncError" ELSE "ValueError")
            /\ names' = CreatedNames(names, mem, LockName(h[p].name))
            /\ mem' = CreatedMem(mem, 1, page)
            /\ h' = [h EXCEPT ![p].lock = LockName(h[p].name)]
       ELSE /\ Outcome(p, "update", f, "ok")
            /\ mem' = [mem EXCEPT ![h[p].shm].buf =
                         ZeroFill(WriteValue(@, Apply(f, SegOf(p).buf)),
                                  Len(Apply(f, SegOf(p).buf)))]
            /\ UNCHANGED <<names, h>>
    /\ UNCHANGED <<page, pc, loc, ret, base, wrote, tried>>
    /\ UNCHANGED <<storeVars, sharedVars>>

\* History only: every call has returned; the next round starts from the
\* segments that exist now.
OpenNextRound ==
    /\ \A p \in Procs : pc[p] = "idle"
    /\ \E p \in Procs : res[p] # "none"
    /\ base' = [n \in DOMAIN names |-> Payload(n)]
    /\ res' = [p \in Procs |-> "none"]
    /\ call' = [p \in Procs |-> NoCall]
    /\ UNCHANGED <<names, mem, page, h, pc, loc, ret, wrote, tried>>
    /\ UNCHANGED <<storeVars, sharedVars>>

OpenNext ==
    \/ \E p \in Procs, size \in OpenSizes : OpenAttach(p, size)
    \/ \E p \in Procs : OpenCreate(p)
    \/ \E p \in Procs : ItemClose(p)
    \/ \E p \in Procs : ItemDelete(p)
    \/ OpenNextRound

SpecOpen == OpenInit /\ [][OpenNext]_vars

\* C18: when both processes have opened one name that did not exist when
\* the opens started (neither open refused by its assertions), both opens
\* returned without error and both handles are attached to the one segment
\* of that name.
C18_OpenAttachOrCreate ==
    (/\ AllIdle /\ SameItem
     /\ ~shared_memory_exists(base, ItemA)
     /\ \A p \in Procs : call[p].op = "open"
                          /\ res[p] \notin {"none", "AssertionError"})
    => /\ \A p \in Procs : res[p] = "ok"
       /\ shared_memory_exists(names, ItemA)
       /\ \A p \in Procs : h[p].shm = names[ItemA]

(***************************************************************************)
(* Handle specification: every operation of a handle, and a handle taking  *)
(* and giving back its lock at any time, which stands for an update of any *)
(* length by its process.  A call starts once the calls that returned have *)
(* been forgotten; the two halves of open and the attempts of a waiting    *)
(* handle interleave with the other handle's calls.                        *)
(***************************************************************************)
\* Sizes asked of open() here: the refused one and the item
\* specification's.
HandleSizes == {0, ItemSize}

\* History only: no returned call is remembered.
Ready == \A q \in Procs : res[q] = "none"

\* History only: the call of p that returned is forgotten.
Forget(p) ==
    /\ pc[p] = "idle" /\ res[p] # "none"
    /\ res' = [res EXCEPT ![p] = "none"]
    /\ call' = [call EXCEPT ![p] = NoCall]
    /\ ret' = [ret EXCEPT ![p] = <<>>]
    /\ loc' = [loc EXCEPT ![p] = NoLocals]
    /\ UNCHANGED <<names, mem, page, h, pc, base, wrote, tried>>
    /\ UNCHANGED <<storeVars, sharedVars>>

HandleNext ==
    \/ \E p \in Procs, size \in HandleSizes : Ready /\ OpenAttach(p, size)
    \/ \E p \in Procs : OpenCreate(p)
    \/ \E p \in Procs : Ready /\ ItemClose(p)
    \/ \E p \in Procs : Ready /\ ItemDelete(p)
    \/ \E p \in Procs : Ready /\ OpenGet(p)
    \/ \E p \in Procs, v \in OpenValues : Ready /\ OpenSet(p, v)
    \/ \E p \in Procs, f \in OpenFuncs : Ready /\ OpenUpdate(p, f)
    \/ \E p \in Procs : Ready /\ LockAcquire(p)
    \/ \E p \in Procs : LockTry(p)
    \/ \E p \in Procs : Ready /\ LockRelease(p)
    \/ \E p \in Procs : Forget(p)

\* Two closed handles on "a"; no segment exists; sizes are not rounded (the
\* rounding is the open specification's matter).
HandleInit == OpenInit /\ SameItem /\ page = 1

SpecHandle == HandleInit /\ [][HandleNext]_vars

\* The size property: self._shm.size of an attached handle.
Size(p) == SegOf(p).size

\* C24: the capacity of a segment is fixed when it is created: a creation
\* gives the segment the size asked for (rounded up to the platform's
\* granule), no step changes the size of a segment that exists before and
\* after it, an open() that attaches leaves the segment as it is whatever
\* size it asks for, and every handle attached to the segment of a name
\* reports that segment's size.
C24_CapacityFixed ==
    /\ [][\A i \in DOMAIN mem \cap DOMAIN mem' : mem'[i].size = mem[i].size]_vars
    /\ [][\A p \in Procs :
            (OpenCreate(p) /\ res'[p] = "ok") =>
                /\ h'[p].shm \notin DOMAIN mem
                /\ Size(p)' = AllocSize(loc[p].arg, page)]_vars
    /\ [][\A p \in Procs, size \in OpenSizes :
            (OpenAttach(p, size) /\ res'[p] = "ok") =>
                /\ h'[p].shm = names[h[p].name]
                /\ Size(p)' = mem[names[h[p].name]].size]_vars
    /\ [](\A p, q \in Procs :
            (h[p].shm # NoSeg /\ h[p].shm = h[q].shm) => Size(p) = Size(q))

\* Handle 2 has asked for 2 bytes and is attached, with handle 1, to a
\* segment of 1 byte.
C24_Witness ==
    /\ call[2] = [op |-> "open", arg |-> 2] /\ res[2] = "ok"
    /\ h[1].shm # NoSeg /\ h[2].shm = h[1].shm
    /\ Size(1) = 1 /\ Size(2) = 1

\* C25: delete() takes the name of the item out of the directory all
\* processes share and detaches the handle; an open() of a name that does
\* not exist goes on to create, and the segment created is a new one of
\* zeros only; close() detaches the calling handle and leaves the
\* directory, every named segment with its payload, and the other handles
\* with what they map as they were.
C25_DeleteVersusClose ==
    /\ [][\A p \in Procs :
            (ItemDelete(p) /\ res'[p] = "ok") =>
                /\ ~shared_memory_exists(names', h[p].name)
                /\ h'[p].shm = NoSeg]_vars
    /\ [][\A p \in Procs, size \in OpenSizes :
            (/\ OpenAttach(p, size)
             /\ ~OpenRefused(p, size)
             /\ ~shared_memory_exists(names, h[p].name))
            => pc'[p] = "open_create"]_vars
    /\ [][\A p \in Procs :
            (OpenCreate(p) /\ res'[p] = "ok") =>
                /\ h'[p].shm \notin DOMAIN mem
                /\ names'[h[p].name] = h'[p].shm
                /\ SegOf(p)'.buf = Zeros(Size(p)')]_vars
    /\ [][\A p \in Procs :
            (ItemClose(p) /\ res'[p] = "ok") =>
                /\ h'[p].shm = NoSeg
                /\ names' = names
                /\ \A n \in DOMAIN names : mem'[names[n]] = mem[names[n]]
                /\ \A q \in Procs \ {p} :
                      /\ h'[q] = h[q]
                      /\ h[q].shm # NoSeg => SegOf(q)' = SegOf(q)]_vars

\* Handle 1 still maps the segment that was written to and then deleted by
\* handle 2; handle 2 has opened the name again and is on a new segment of
\* zeros.
C25_Witness ==
    /\ call[2].op = "open" /\ res[2] = "ok"
    /\ h[1].shm # NoSeg /\ h[2].shm # NoSeg /\ h[1].shm # h[2].shm
    /\ SegOf(1).buf[1] = 3
    /\ h[2].shm = names[ItemA]
    /\ SegOf(2).buf = Zeros(Size(2))

\* A step that changes no segment, no name and no handle (so that no lock
\* is taken either).
NothingTouched == UNCHANGED <<names, mem, h, pc>>

\* C26: open() on a handle that is attached, open() with size 0, and get,
\* set, update, close and delete on a handle that is not attached raise
\* AssertionError, and the refused call creates, destroys and modifies no
\* segment and takes no lock.
C26_HandleStateErrors ==
    /\ [][\A p \in Procs, size \in OpenSizes :
            (OpenAttach(p, size) /\ (size = 0 \/ h[p].shm # NoSeg)) =>
                res'[p] = "AssertionError" /\ NothingTouched]_vars
    /\ [][\A p \in Procs :
            ((ItemClose(p) \/ ItemDelete(p) \/ OpenGet(p)) /\ h[p].shm = NoSeg) =>
                res'[p] = "AssertionError" /\ NothingTouched]_vars
    /\ [][\A p \in Procs, v \in OpenValues :
            (OpenSet(p, v) /\ h[p].shm = NoSeg) =>
                res'[p] = "AssertionError" /\ NothingTouched]_vars
    /\ [][\A p \in Procs, f \in OpenFuncs :
            (OpenUpdate(p, f) /\ h[p].shm = NoSeg) =>
                res'[p] = "AssertionError" /\ NothingTouched]_vars

\* Handle 1 is closed and its set was refused; handle 2 is attached to the
\* item, which holds a value, and the item's lock does not exist.
C26_Witness ==
    /\ call[1].op = "set" /\ res[1] = "AssertionError"
    /\ h[1].shm = NoSeg /\ h[1].lock = NoLock
    /\ h[2].shm # NoSeg /\ h[2].shm = names[ItemA]
    /\ SegOf(2).buf[1] = 3
    /\ ~shared_memory_exists(names, LockName(ItemA))

\* The lock of p's item as the kernel and every handle see it.
LockState(p) ==
    <<shared_memory_exists(names, LockName(h[p].name)),
      [q \in Procs |-> h[q].lock]>>

\* Handle p can begin a call.
CanCall(p) == Ready /\ pc[p] = "idle"

\* C27: get, open, close and delete make no attempt at the item's lock:
\* each can be called whatever the lock's state, none of their steps
\* creates or removes the lock or changes what a handle holds, none ends
\* with the errors of _acquire_lock, and get, close and delete return in
\* the step that calls them, open within its two steps.
C27_NoMutex ==
    /\ [](\A p \in Procs : CanCall(p) =>
            /\ ENABLED OpenGet(p)
            /\ ENABLED ItemClose(p)
            /\ ENABLED ItemDelete(p)
            /\ \A size \in HandleSizes : ENABLED OpenAttach(p, size))
    /\ [](\A p \in Procs : pc[p] = "open_create" => ENABLED OpenCreate(p))
    /\ [][\A p \in Procs :
            (OpenGet(p) \/ ItemClose(p) \/ ItemDelete(p) \/ OpenCreate(p)) =>
                /\ LockState(p)' = LockState(p)
                /\ pc'[p] = "idle"
                /\ res'[p] \in {"ok", "AssertionError", "FileExistsError"}]_vars
    /\ [][\A p \in Procs, size \in OpenSizes :
            OpenAttach(p, size) =>
                /\ LockState(p)' = LockState(p)
                /\ \/ pc'[p] = "idle" /\ res'[p] \in {"ok", "AssertionError"}
                   \/ pc'[p] = "open_create"]_vars

\* Handle 2 holds the lock of the item; handle 1's get has returned the
\* payload.
C27_Witness ==
    /\ HoldsLock(2) /\ shared_memory_exists(names, LockName(ItemA))
    /\ call[1].op = "get" /\ res[1] = "ok"
    /\ ret[1] = Payload(ItemA) /\ ret[1][1] = 3

(***************************************************************************)
(* Further claims on the shared specification                              *)
(***************************************************************************)
\* The names in the Index segment process p is attached to.
IndexOf(p) == GetIndex(View(p)).val

\* C28: the steps of one set are separate and no lock is held from one to
\* the next: the step up to the Index puts the name into the Index the
\* process is attached to and creates and writes no item segment (its
\* maintenance may delete expired ones), the process then holds no lock of
\* the Index, and the step that writes the item gives its lock back.
C28_SetNotAtomic ==
    /\ [][\A p \in Procs :
            \* SetIndex(p, k, t) has gone through, k is loc'[p].arg
            (pc[p] = "idle" /\ pc'[p] = "set_item") =>
                /\ InSeq(loc'[p].arg, IndexOf(p)')
                /\ \A n \in SharedKeys :
                      shared_memory_exists(names', n) =>
                          /\ shared_memory_exists(names, n)
                          /\ mem'[names'[n]] = mem[names[n]]
                /\ ~shared_memory_exists(names', LockName(IndexName(StoreName)))]_vars
    /\ [](\A p \in Procs : pc[p] # "idle" => inst[p].ih.lock = NoLock)
    /\ [][\A p \in Procs :
            \* SetItem(p) has gone through
            (pc[p] = "set_item" /\ pc'[p] = "set_expiry") =>
                ~shared_memory_exists(names', LockName(loc[p].arg))]_vars

\* Process 1 is between the Index step and the item step of set("a"), "a"
\* has no segment, and process 2, reading now, finds "a" in the Index: its
\* has("a") is true.
C28_Witness ==
    /\ pc[1] = "set_item" /\ loc[1].arg = ItemA
    /\ ~shared_memory_exists(names, ItemA)
    /\ Open(2) /\ pc[2] = "idle"
    /\ InSeq(ItemA, IndexOf(2))
    /\ StoreHasSeq(View(2), ItemA, clock).ret

\* No name is listed twice.
NoDuplicates(l) == \A i, j \in 1..Len(l) : l[i] = l[j] => i = j

IndexFuncs == [op : {"add", "del"}, name : Keys]

\* _add_item_to_index / _remove_item_from_index on payload b: [err, val]
IndexApply(f, b) ==
    IF f.op = "add" THEN AddItemToIndex(b, f.name)
    ELSE RemoveItemFromIndex(b, f.name)

\* The store exists: its Index holds the empty list the constructor wrote,
\* and both processes are attached to it.
IndexInit ==
    /\ page = 1 /\ faulty = {}
    /\ names = [n \in {IndexName(StoreName)} |-> 1]
    /\ mem = [i \in {1} |->
                [size |-> IndexBytes,
                 buf |-> Padded(EncodeList(<<>>), IndexBytes)]]
    /\ base = [n \in {IndexName(StoreName)} |->
                 Padded(EncodeList(<<>>), IndexBytes)]
    /\ h = [p \in Procs |->
              [name |-> IndexName(StoreName), shm |-> 1, lock |-> NoLock]]
    /\ pc = [p \in Procs |-> "idle"]
    /\ loc = [p \in Procs |-> NoLocals]
    /\ res = [p \in Procs |-> "none"]
    /\ ret = [p \in Procs |-> <<>>]
    /\ call = [p \in Procs |-> NoCall]
    /\ wrote = [p \in Procs |-> FALSE]
    /\ tried = [p \in Procs |-> 0]
    /\ StoreAtRest
    /\ inst = <<>>

\* Mutant of IndexUpdateRead: the transform is given the payload as it was
\* before the calls of this round.
IndexUpdateReadStale(p) ==
    /\ pc[p] = "update_read"
    /\ \E r \in {IndexApply(loc[p].arg, base[h[p].name])} :
          IF r.err # "none"
          THEN Return(p, r.err)
          ELSE IF TooBig(r.val, SegOf(p).size)
          THEN Return(p, "ValueError")
          ELSE /\ loc' = [loc EXCEPT ![p].newv = r.val]
               /\ pc' = [pc EXCEPT ![p] = "update_write"]
               /\ res' = res
    /\ UNCHANGED <<names, mem, page, h, ret, base, call, wrote, tried>>
    /\ UNCHANGED <<storeVars, sharedVars>>

\* update, with the lock: read the payload, run the transform, check the
\* size.  An error of the transform and the ValueError leave update at once.
IndexUpdateRead(p) ==
    /\ pc[p] = "update_read"
    /\ \E r \in {IndexApply(loc[p].arg, SegOf(p).buf)} :
          IF r.err # "none"
          THEN Return(p, r.err)
          ELSE IF TooBig(r.val, SegOf(p).size)
          THEN Return(p, "ValueError")
          ELSE /\ loc' = [loc EXCEPT ![p].newv = r.val]
               /\ pc' = [pc EXCEPT ![p] = "update_write"]
               /\ res' = res
    /\ UNCHANGED <<names, mem, page, h, ret, base, call, wrote, tried>>
    /\ UNCHANGED <<storeVars, sharedVars>>

IndexNext ==
    \/ \E p \in Procs, f \in IndexFuncs : UpdateCall(p, f)
    \/ \E p \in Procs : AcquireTry(p)
    \/ \E p \in Procs : IndexUpdateRead(p)
    \/ \E p \in Procs : UpdateWrite(p)
    \/ \E p \in Procs : UpdateFill(p)
    \/ \E p \in Procs : ReleaseLock(p)
    \/ NextRound

SpecIndex == IndexInit /\ [][IndexNext]_vars

\* The payload transform f leaves in a segment that held payload b.
IndexEffect(f, b) == Padded(IndexApply(f, b).val, Len(b))

C31_MalformedSetRejected ==
    [][\A p \in Procs, t \in Timeouts :
          SetIndex(p, LongKey, t) => names' = names /\ mem' = mem]_vars

\* C32: a set of a key that has no segment, no name in the Index and no
\* entry of the Expiry Table, failing with ValueError or TimeoutError while
\* it writes the item, leaves the key as it was: no segment, not in the
\* Index, has(k) false, k not listed.
C32_FailedSetLeavesAbsent ==
    [][\A k \in Keys, v \in Values, t \in Timeouts :
          (/\ StoreSet(k, v, t)
           /\ GoneIn(Now, k)
           /\ StoreSetSeq(Now, k, v, t, clock).err \in {"ValueError", "TimeoutError"})
          => /\ GoneIn(Now, k)'
             /\ ~HasNow(k).ret'
             /\ \A x \in Prefixes : ~InSeq(k, ListNow(x).ret)']_vars

(***************************************************************************)
(* Name specification: one store whose keys include names that are also    *)
(* the kernel names of other parts: "aL", the lock of key "a", and "sI",   *)
(* the Index of store "s".  The key's name is handed to                    *)
(* DataStoreSharedMemItem as it is.                                        *)
(***************************************************************************)
ClashKeys == {ItemA, LockName(ItemA), IndexName(StoreName)}

ClashInit == StoreStartWith(ClashKeys, FALSE, 0) /\ faulty = {}

\* Keys are set without a timeout: nothing expires here.
ClashNext ==
    \/ \E k \in ClashKeys : StoreHas(k)
    \/ \E k \in ClashKeys, d \in Defaults : StoreGet(k, d)
    \/ \E x \in Prefixes : StoreList(x)
    \/ \E k \in ClashKeys, v \in Values : StoreSet(k, v, 0)
    \/ \E k \in ClashKeys : StoreDelete(k)

SpecClash == ClashInit /\ [][ClashNext]_vars

\* C33: the kernel names of the store's parts do not collide: a set of one
\* key neither creates nor removes the lock of another key, and after a
\* set that returned the Index segment still holds a list.
C33_NamesDoNotCollide ==
    [][\A k \in ClashKeys, v \in Values :
          StoreSet(k, v, 0) =>
              /\ \A k2 \in ClashKeys \ {k} :
                    shared_memory_exists(names', LockName(k2))
                        = shared_memory_exists(names, LockName(k2))
              /\ (StoreSetSeq(Now, k, v, 0, clock).err = "none"
                  /\ GetIndex(Now).err = "none") => GetIndex(Now)'.err = "none"]_vars

(***************************************************************************)
(* Claims on reads and sweeps between the steps of other processes         *)
(***************************************************************************)
\* The key segments that exist in store state S.
KeySegments(S) == {k \in SharedKeys : shared_memory_exists(S.names, k)}

\* C34: has, get and list of a process, called in any state the other
\* process's calls leave, create no key segment and change no payload of a
\* key segment that stays.
C34_ReadsCreateNothing ==
    \A p \in Procs : (Open(p) /\ pc[p] = "idle") =>
        \A k \in SharedKeys :
            \A S \in {StoreHasSeq(View(p), k, clock).S,
                      StoreGetSeq(View(p), k, None, clock).S,
                      StoreListSeq(View(p), <<>>, clock).S} :
                /\ KeySegments(S) \subseteq KeySegments(View(p))
                /\ \A n \in KeySegments(S) \cap KeySegments(View(p)) :
                      S.mem[S.names[n]].buf = Payload(n)

(***************************************************************************)
(* Sweep specification: the shared specification on one key, with          *)
(* maintenance of a process in its steps: the read of the Expiry Table     *)
(* and of the time, then one step for each entry read, between which the   *)
(* other process runs.  The entries still to visit are in loc[p].arg, the  *)
(* time read in loc[p].waited.                                             *)
(***************************************************************************)
SweepKeys == {ItemA}

\* maintenance: _expiry_dict = self._get_expiry_dict(); _now = timestamp()
SweepRead(p) ==
    /\ pc[p] = "idle" /\ inst[p].live
    /\ \E d \in {GetExpiryDict(View(p))} :
          IF d.err # "none" \/ d.val = <<>>
          THEN UNCHANGED <<pc, loc>>
          ELSE /\ pc' = [pc EXCEPT ![p] = "sweep"]
               /\ loc' = [loc EXCEPT ![p] =
                            [NoLocals EXCEPT !.op = "sweep", !.arg = d.val,
                                             !.waited = clock]]
    /\ UNCHANGED <<names, mem, inst, page, h, res, ret, base, call, wrote,
                   tried, storeVars, faulty>>

\* maintenance: one round of the loop over the entries read
SweepStep(p) ==
    /\ pc[p] = "sweep"
    /\ \E S \in {IF IsExpired(loc[p].waited, Head(loc[p].arg).t)
                 THEN ExpireEntry(View(p), Head(loc[p].arg).k)
                 ELSE View(p)} :
          /\ CommitShared(p, S)
          /\ IF S.err # "none" \/ Tail(loc[p].arg) = <<>>
             THEN /\ pc' = [pc EXCEPT ![p] = "idle"]
                  /\ loc' = [loc EXCEPT ![p] = NoLocals]
             ELSE /\ pc' = pc
                  /\ loc' = [loc EXCEPT ![p].arg = Tail(@)]
    /\ UNCHANGED <<page, h, res, ret, base, call, wrote, tried, storeVars, faulty>>

SweepNext ==
    \/ Tick
    \/ \E p \in Procs : Construct(p, FALSE)
    \/ \E p \in Procs, k \in SweepKeys, t \in Timeouts : SetIndex(p, k, t)
    \/ \E p \in Procs : SetItem(p)
    \/ \E p \in Procs : SetExpiry(p)
    \/ \E p \in Procs : SweepRead(p)
    \/ \E p \in Procs : SweepStep(p)

SpecSweep == SharedInit /\ [][SweepNext]_vars

\* The Expiry Table holds an entry of key k whose instant has passed.
ExpiredNow(k) == \E i \in DOMAIN ExpiryNow :
                    ExpiryNow[i].k = k /\ IsExpired(clock, ExpiryNow[i].t)

\* C35: on a store no construction has reseeded, a round of the sweep of a
\* process takes a key's segment or its name in the Index away only if the
\* Expiry Table, as it is at that round, holds an entry of the key whose
\* instant has passed.
C35_SweepRemovesOnlyExpired ==
    [][\A p \in Procs : (NoReseed /\ pc[p] = "sweep" /\ loc'[p] # loc[p]) =>
          \A k \in SweepKeys :
              (\/ shared_memory_exists(names, k) /\ ~shared_memory_exists(names', k)
               \/ InSeq(k, IndexNow) /\ ~InSeq(k, IndexNow'))
              => ExpiredNow(k)]_vars

(***************************************************************************)
(* Hierarchy specification: two processes on one store in                  *)
(* hierarchical-name mode (dot_names=True in both).  set is three steps:   *)
(* the sweep and the dot check, _add_to_index, the item; no key is set     *)
(* with a timeout.                                                         *)
(***************************************************************************)
HierInit ==
    /\ names = <<>> /\ mem = <<>> /\ faulty = {}
    /\ page \in {1, PageSize}
    /\ ItemAtRest
    /\ inst = [p \in Procs |-> NoInst]
    /\ res = [p \in Procs |-> "none"]
    /\ ret = [p \in Procs |-> <<>>]
    /\ call = [p \in Procs |-> NoCall]
    /\ store = [NoStore EXCEPT !.dot = TRUE]
    /\ clock = 0
    /\ called = -1
    /\ stored = <<>>
    /\ deleted = <<>>
    /\ deadline = <<>>
    /\ forever = <<>>

\* set, up to the dot check: maintenance, _get_index, _check_dot_name
HierCheck(p, name) ==
    /\ pc[p] = "idle" /\ inst[p].live
    /\ \E S \in {Then(Maintenance(View(p), clock),
                      LAMBDA X : DotNameCheck(X, name))} :
          /\ CommitShared(p, S)
          /\ IF S.err # "none"
             THEN UNCHANGED <<pc, loc>>
             ELSE /\ pc' = [pc EXCEPT ![p] = "set_add"]
                  /\ loc' = [loc EXCEPT ![p] =
                               [NoLocals EXCEPT !.op = "set", !.arg = name]]
    /\ UNCHANGED <<page, h, res, ret, base, call, wrote, tried, storeVars, faulty>>

\* set: _add_to_index(name)
HierAdd(p) ==
    /\ pc[p] = "set_add"
    /\ \E S \in {AddToIndex(View(p), loc[p].arg)} :
          /\ CommitShared(p, S)
          /\ IF S.err # "none"
             THEN /\ pc' = [pc EXCEPT ![p] = "idle"]
                  /\ loc' = [loc EXCEPT ![p] = NoLocals]
             ELSE /\ pc' = [pc EXCEPT ![p] = "set_item"]
                  /\ loc' = loc
    /\ UNCHANGED <<page, h, res, ret, base, call, wrote, tried, storeVars, faulty>>

HierNext ==
    \/ \E p \in Procs : Construct(p, FALSE)
    \/ \E p \in Procs, k \in DotKeys : HierCheck(p, k)
    \/ \E p \in Procs : HierAdd(p)
    \/ \E p \in Procs : SetItem(p)
    \/ \E p \in Procs, k \in DotKeys : SharedDelete(p, k)

SpecHier == HierInit /\ [][HierNext]_vars

\* C36: when no set is under way, the Index holds no two keys of which one
\* is a strict dot-ancestor of the other.
C36_HierarchyInvariant ==
    (\A p \in Procs : pc[p] = "idle") =>
        \A k1, k2 \in DotKeys :
            ~(/\ InSeq(k1, IndexNow) /\ InSeq(k2, IndexNow)
              /\ StartsWith(k2, DotPrefix(k1)))

(***************************************************************************)
(* Overflow specification: the store of the store specification, opened    *)
(* with the default index_size, on two short keys and a key of the longest *)
(* name an item may have, whose encoding does not fit the Index segment.   *)
(* Keys are set without a timeout.                                         *)
(***************************************************************************)
WideKey == [i \in 1..SHARED_ITEM_NAME_MAX |-> 107]

WideKeys == {ItemA, ItemB, WideKey}

OverflowInit == StoreStartWith(WideKeys, FALSE, 0) /\ faulty = {}

OverflowNext ==
    \/ \E k \in WideKeys : StoreHas(k)
    \/ \E k \in WideKeys, d \in Defaults : StoreGet(k, d)
    \/ \E x \in Prefixes : StoreList(x)
    \/ \E k \in WideKeys, v \in Values : StoreSet(k, v, 0)
    \/ \E k \in WideKeys : StoreDelete(k)

SpecOverflow == OverflowInit /\ [][OverflowNext]_vars

\* The handle of the Index holds no lock, no lock segment of the Index
\* exists, and the Index with name added is larger than its segment.
IndexOverflows(S, name) ==
    LET seg == S.mem[S.ih.shm]
        r == AddItemToIndex(seg.buf, name)
    IN  /\ S.ih.lock = NoLock
        /\ LockCreateSucceeds(S.names, LockName(S.ih.name))
        /\ r.err = "none" /\ TooBig(r.val, seg.size)

\* C37: a set whose name makes the Index larger than its segment raises an
\* error, leaves the payload of the Index as it was, and leaves a store on
\* which no later set or delete fails with TimeoutError or RuntimeError.
C37_IndexOverflowKeepsStoreUsable ==
    [][\A k \in WideKeys, v \in Values :
          (StoreSet(k, v, 0) /\ IndexOverflows(Now, k)) =>
              /\ StoreSetSeq(Now, k, v, 0, clock).err # "none"
              /\ Payload(IndexName(StoreName))' = Payload(IndexName(StoreName))
              /\ \A k2 \in WideKeys :
                    /\ StoreSetSeq(Now, k2, v, 0, clock)'.err
                           \notin {"TimeoutError", "RuntimeError"}
                    /\ StoreDeleteSeq(Now, k2, clock)'.err
                           \notin {"TimeoutError", "RuntimeError"}]_vars

(***************************************************************************)
(* Further claims on the store specification                               *)
(***************************************************************************)
\* The store state delete(k) leaves, called now.
DeletedNow(k) == StoreDeleteSeq(Now, k, clock)

MaxExpiry == 2

NoObject == 0

MemValues == {<<120>>, <<121, 121>>}

MemNow == [instance |-> store.instance, data |-> store.data,
           data_expiry |-> store.data_expiry, err |-> "none"]

\* The order of sorted() on the records: all timestamps have the same
\* number of digits, so it is by instant, then by name.
ExpiryLess(a, b) == a.t < b.t \/ (a.t = b.t /\ LexLess(a.k, b.k))

\* self._data[name]
DataOf(d, name) == d[CHOOSE i \in 1..Len(d) : d[i].k = name].t

\* maintenance: the loop over the sorted copy of _data_expiry.  The message
\* of the log reads self._data[_name] before the test '_name in self._data'.
RECURSIVE MemSweepLoop(_, _, _, _)
MemSweepLoop(M, entries, i, now) ==
    IF i > Len(entries) THEN M
    ELSE IF now < entries[i].t THEN M
    ELSE IF ~HasKey(M.data, entries[i].k) THEN Fail(M, "KeyError")
    ELSE MemSweepLoop([M EXCEPT !.data = DictDel(@, entries[i].k),
                                !.data_expiry = RemoveFirst(@, entries[i])],
                      entries, i + 1, now)

\* maintenance (_manual_expiry is True)
MemMaintenance(M, now) ==
    MemSweepLoop(M, SortSeq(M.data_expiry, ExpiryLess), 1, now)

\* has: [S, ret]
MemHasSeq(M, name, now) ==
    Bind(MemMaintenance(M, now), LAMBDA M1 :
        IF M1.err # "none" THEN [S |-> M1, ret |-> FALSE]
        ELSE [S |-> M1, ret |-> HasKey(M1.data, name)])

\* get: [S, ret]
MemGetSeq(M, name, default, now) ==
    Bind(MemHasSeq(M, name, now), LAMBDA hr :
        LET d == Decode(DataOf(hr.S.data, name))
        IN  IF hr.S.err # "none" THEN [S |-> hr.S, ret |-> None]
            ELSE IF ~hr.ret THEN [S |-> hr.S, ret |-> default]
            ELSE IF d.err # "none" THEN [S |-> Fail(hr.S, d.err), ret |-> None]
            ELSE [S |-> hr.S, ret |-> d.val])

\* set (dot_names is False)
MemSetSeq(M, name, value, timeout, now) ==
    IF timeout < 0 THEN Fail(M, "AssertionError")
    ELSE Then(MemMaintenance(M, now), LAMBDA X :
             [X EXCEPT !.data = DictSet(@, name, EncodeValue(value)),
                       !.data_expiry =
                           IF timeout > 0
                           THEN Append(@, [t |-> now + timeout, k |-> name])
                           ELSE @])

\* delete
MemDeleteSeq(M, name, now) ==
    Bind(MemHasSeq(M, name, now), LAMBDA hr :
        IF hr.S.err # "none" \/ ~hr.ret THEN hr.S
        ELSE [hr.S EXCEPT !.data = DictDel(@, name)])

\* list: [S, ret]
MemListSeq(M, prefix, now) ==
    Bind(MemMaintenance(M, now), LAMBDA M1 :
        IF M1.err # "none" THEN [S |-> M1, ret |-> <<>>]
        ELSE [S |-> M1,
              ret |-> FilterItems([i \in 1..Len(M1.data) |-> M1.data[i].k],
                                  prefix)])

\* DataStoreMem(): __new__ gives the object kept in _instance, creating it
\* the first time; __init__ of the base class then runs on it.
MemConstructSeq(M) ==
    [M EXCEPT !.instance = IF @ = NoObject THEN 1 ELSE @,
              !.data = <<>>,
              !.data_expiry = <<>>]

MemInit ==
    /\ KernelAtRest /\ ItemAtRest
    /\ inst = <<>>
    /\ res = [p \in Procs |-> "none"]
    /\ ret = [p \in Procs |-> <<>>]
    /\ call = [p \in Procs |-> NoCall]
    /\ store = [instance |-> NoObject, data |-> <<>>, data_expiry |-> <<>>]
    /\ clock = 0
    /\ called = -1
    /\ stored = <<>>
    /\ deleted = <<>>
    /\ deadline = <<>>
    /\ forever = <<>>

\* The call left M: the object keeps what M holds, res[1] the error raised.
MemCommit(M) ==
    /\ store' = [instance |-> M.instance, data |-> M.data,
                 data_expiry |-> M.data_expiry]
    /\ res' = [res EXCEPT ![1] = M.err]
    /\ called' = clock
    /\ UNCHANGED <<names, mem, page, h, pc, loc, ret, base, call, wrote, tried,
                   clock, stored, deleted, deadline, forever, sharedVars>>

MemConstruct ==
    \E M \in {MemConstructSeq(MemNow)} : MemCommit(M)

MemHas(name) ==
    /\ store.instance # NoObject
    /\ MemCommit(MemHasSeq(MemNow, name, clock).S)

MemGet(name, default) ==
    /\ store.instance # NoObject
    /\ MemCommit(MemGetSeq(MemNow, name, default, clock).S)

MemList(prefix) ==
    /\ store.instance # NoObject
    /\ MemCommit(MemListSeq(MemNow, prefix, clock).S)

MemSet(name, value, timeout) ==
    /\ store.instance # NoObject
    /\ timeout > 0 => Len(store.data_expiry) < MaxExpiry
    /\ MemCommit(MemSetSeq(MemNow, name, value, timeout, clock))

MemDelete(name) ==
    /\ store.instance # NoObject
    /\ MemCommit(MemDeleteSeq(MemNow, name, clock))

MemNext ==
    \/ Tick
    \/ MemConstruct
    \/ \E k \in Keys : MemHas(k)
    \/ \E k \in Keys, d \in Defaults : MemGet(k, d)
    \/ \E x \in Prefixes : MemList(x)
    \/ \E k \in Keys, v \in MemValues, t \in Timeouts : MemSet(k, v, t)
    \/ \E k \in Keys : MemDelete(k)

SpecMem == MemInit /\ [][MemNext]_vars

\* C39: in every state the calls on DataStoreMem leave, the sweep raises no
\* error and leaves no record of _data_expiry whose instant is reached.
C39_MemMaintenanceNeverRaises ==
    \E M \in {MemMaintenance(MemNow, clock)} :
        /\ M.err = "none"
        /\ \A i \in 1..Len(M.data_expiry) : clock < M.data_expiry[i].t

\* C40: constructing DataStoreMem again gives the object the first
\* construction gave, and every key has() reports before is reported after
\* with the value get() returned before.
C40_MemOneInstance ==
    store.instance # NoObject =>
        \E M \in {MemConstructSeq(MemNow)} :
            /\ M.instance = store.instance
            /\ \A k \in Keys :
                  (MemHasSeq(MemNow, k, clock).S.err = "none"
                      /\ MemHasSeq(MemNow, k, clock).ret)
                  => /\ MemHasSeq(M, k, clock).ret
                     /\ MemGetSeq(M, k, None, clock).ret
                            = MemGetSeq(MemNow, k, None, clock).ret

====
